---- MODULE Spec2Model ----
(***************************************************************************)
(* star-leaderboard: the platform postMessage bridge (platform.ts), the    *)
(* direct API client (api.ts) and the leaderboard facade (impl.ts).        *)
(***************************************************************************)
EXTENDS Integers, Sequences, FiniteSets, TLC

\* ------------------------------------------------------------------ bounds
\* correlation IDs one bridge may allocate (caps ++submitId)
MaxSubmits == 2
\* show() calls in one run (caps the outbox)
MaxShows == 1
\* one-facade runs: outbound posts made plus HTTP requests in flight
MaxActivity == 1
\* the same for the runs of a page with two facades
MaxActivityTwo == 2
\* unsubscribe closures a game holds on to
MaxClosures == 3

\* the bridge / facade instances living in the page
Inst == {1, 2}
Ids == 1..MaxSubmits

\* ------------------------------------------------------------ JS values
Null == "null"
\* an optional value: <<>> is undefined, <<v>> is v
Undefined == <<>>
Some(v) == <<v>>

\* platform.ts:7-9
SDK_SOURCE == "star_leaderboard_sdk"
PARENT_SOURCE == "star_leaderboard_parent"
RUNTIME_SOURCE == "star_game_runtime"

\* SubmitResult (index.ts): success, rank?, scoreId?, error?
SubmitResult(success, rank, scoreId, error) ==
  [success |-> success, rank |-> rank, scoreId |-> scoreId, error |-> error]

TimeoutResult == SubmitResult(FALSE, Undefined, Undefined, Some("Timeout waiting for response"))
DestroyedResult == SubmitResult(FALSE, Undefined, Undefined, Some("SDK destroyed"))

\* ------------------------------------------------------------ Map helpers
MapSet(m, k, v) == [x \in (DOMAIN m) \cup {k} |-> IF x = k THEN v ELSE m[x]]
MapDelete(m, k) == [x \in (DOMAIN m) \ {k} |-> m[x]]
MapHas(m, k) == k \in DOMAIN m
EmptyMap == [x \in {} |-> x]

VARIABLES
  bridge,       \* bridge[b]: the closure state of one createPlatformBridge() call
  outbox,       \* the messages window.parent.postMessage delivered, in order
  facade,       \* facade[f]: the closure state of one createLeaderboardImpl() call
  calls,        \* calls[f]: the facade calls suspended at an await
  http,         \* the fetch() requests in flight
  localStorage, \* the 'star-player-id' item, the audio preferences item, and
                \* whether storage is usable
  returned,     \* what the step just taken returned to its caller, if it completed a call
  session,      \* the StarAudioImpl instance createStarAudio() built, if any: its lifecycle
  emitted,      \* the events dispatched on the instance's _eventTarget, in order
  sounds,       \* _sounds, _soundGroups, and the loads in flight or settled
  music         \* the music pointer, its fade timer, and the playbacks of the Howls

facadeVars == <<facade, calls, http, localStorage, returned>>
audioVars == <<session, emitted, sounds, music>>
vars == <<bridge, outbox, facade, calls, http, localStorage, returned, session, emitted,
          sounds, music>>
pageVars == <<bridge, outbox, facade, calls, http, localStorage, returned>>

\* ------------------------------------------------ StarAudio: initial values
MaxEmitted == 3   \* lifecycle events dispatched in one run
MaxLoads == 3     \* Howls constructed in one run
MaxPlays == 3     \* sound ids howl.play() hands out in one run
MaxTimers == 2    \* setTimeout calls of the music interface in one run
MaxPreloads == 2  \* preload() calls in one run

\* the event types attachUnlock registers its handler for
GestureTypes == {"pointerdown", "touchstart", "keydown", "click"}

\* a volume is in hundredths: 100 is 1.0. Two values that are not numbers in
\* [0, 1] can reach a volume field: NaN, and the null JSON writes for it
NaN == 999
JsonNull == 998

\* Math.max(0, Math.min(1, v)): NaN for NaN
clamp(v) == IF v = NaN THEN NaN ELSE IF v < 0 THEN 0 ELSE IF v > 100 THEN 100 ELSE v

\* _loadState(): the mute flag and the volumes of the stored document, if
\* the item can be read and is there (the field initialisers otherwise)
loadState(ls) ==
  IF ls.available /\ ls.audio # Undefined
    THEN [isMuted |-> ls.audio[1].mute, volumes |-> ls.audio[1].volumes]
    ELSE [isMuted |-> FALSE, volumes |-> [music |-> 80, sfx |-> 90]]

\* _saveState(): JSON.stringify writes a NaN volume as null; setItem throws
\* into the catch when storage cannot be written
saveState(ls, isMuted, volumes) ==
  IF ls.available /\ ls.writable
    THEN [ls EXCEPT !.audio =
            Some([mute |-> isMuted,
                  volumes |-> [g \in DOMAIN volumes |->
                                 IF volumes[g] = NaN THEN JsonNull ELSE volumes[g]]])]
    ELSE ls

\* no createStarAudio() call was made yet; the field initialisers of the class.
\* session.saved keeps whether _saveState ran in this session.
\* env is where the factory is called: "server" (no window), "noAudioContext"
\* (a window without AudioContext and webkitAudioContext) or "browser"
NoSession(env) ==
  [env |-> env, created |-> "none", state |-> "locked", unlockListeners |-> {},
   visibilityHandler |-> FALSE, destroyCalled |-> FALSE, readyResolved |-> FALSE,
   isMuted |-> FALSE, volumes |-> [music |-> 80, sfx |-> 90], howlerVolume |-> 100,
   saved |-> FALSE]
NoSounds == [sounds |-> EmptyMap, soundGroups |-> EmptyMap, loads |-> <<>>,
             generatedWavUrls |-> {}, preloads |-> <<>>]
\* a sound id or timer id that is null is 0; the ids handed out start at 1
NoId == 0
NoMusic == [currentMusicId |-> Null, currentMusicSoundId |-> NoId,
            pendingFadeTimeout |-> NoId, timers |-> <<>>, playbacks |-> <<>>,
            lastCall |-> [op |-> "none", id |-> Null], handle |-> NoId]
NoAudio ==
  /\ session = NoSession("browser")
  /\ emitted = <<>>
  /\ sounds = NoSounds
  /\ music = NoMusic

\* ------------------------------------------------- inbound message events
\* payload?.field: undefined when the payload itself is undefined
NoPayload == [defined |-> FALSE, id |-> Undefined, gameId |-> Undefined,
              success |-> Undefined, rank |-> Undefined, scoreId |-> Undefined,
              error |-> Undefined]
Payload(id, gameId, success, rank, scoreId, error) ==
  [defined |-> TRUE, id |-> id, gameId |-> gameId, success |-> success,
   rank |-> rank, scoreId |-> scoreId, error |-> error]
Event(isObject, source, type, payload) ==
  [isObject |-> isObject, source |-> source, type |-> type, payload |-> payload]


\* the bodies a parent may put in a submit_result
ResultBodies ==
  { [success |-> Some(TRUE), rank |-> Some(4), scoreId |-> Some("abc"), error |-> Undefined],
    [success |-> Undefined, rank |-> Undefined, scoreId |-> Undefined, error |-> Some("rejected")] }

SubmitResultEvents(source) ==
  { Event(TRUE, source, "submit_result",
          Payload(id, Undefined, r.success, r.rank, r.scoreId, r.error)) :
      id \in {Undefined} \cup {Some(i) : i \in Ids}, r \in ResultBodies }

ContextEvents ==
  { Event(TRUE, PARENT_SOURCE, "context",
          Payload(Undefined, g, Undefined, Undefined, Undefined, Undefined)) :
      g \in {Undefined, Some("")} \cup {Some(x) : x \in {"g1", "g2"}} }

\* everything a window 'message' event may carry
Events ==
  SubmitResultEvents(PARENT_SOURCE)
    \cup { e \in SubmitResultEvents(SDK_SOURCE) : e.payload.success = Some(TRUE) }
    \cup ContextEvents
    \cup { Event(FALSE, PARENT_SOURCE, "submit_result", NoPayload),
           Event(TRUE, PARENT_SOURCE, "submit_result", NoPayload),
           Event(TRUE, PARENT_SOURCE, "context", NoPayload),
           Event(TRUE, PARENT_SOURCE, "pong", NoPayload) }

\* JS truthiness of an optional string
Truthy(opt) == opt # Undefined /\ opt[1] # ""

\* ------------------------------------------------------- platform bridge
\* createPlatformBridge(): the state right after construction
createPlatformBridge ==
  [gameId |-> Null, ready |-> FALSE, submitId |-> 0,
   pendingSubmits |-> EmptyMap,
   timers |-> {},                          \* armed setTimeout handles
   listening |-> TRUE,                     \* addEventListener('message', handleMessage)
   resolveCalls |-> [id \in Ids |-> <<>>], \* the values passed to each promise's resolve
   rejected |-> {}]                        \* promises whose executor threw

\* a bridge that was never constructed (standalone facade)
NoBridge ==
  [createPlatformBridge EXCEPT !.listening = FALSE]

\* mutant: no try/catch around postMessage
postToParent_throws(accessible) == [delivered |-> accessible, threw |-> ~accessible]

\* postToParent: what one call does; accessible says whether window.parent
\* accepts the message.  The try/catch swallows a throw.
postToParent(accessible) == [delivered |-> accessible, threw |-> FALSE]

\* postToParentRuntime: same, under RUNTIME_SOURCE
postToParentRuntime(accessible) == [delivered |-> accessible, threw |-> FALSE]

OutMsg(source, type, id, score) ==
  [source |-> source, type |-> type, id |-> id, score |-> score]

\* calling a promise's resolve function
resolve(br, p, result) ==
  [br EXCEPT !.resolveCalls[p] = Append(@, result)]

clearTimeout(br, t) == [br EXCEPT !.timers = @ \ {t}]

\* mutant: the matching entry is resolved but left in the map, its timer armed
onSubmitResult_keepsEntry(br, payload) ==
  LET id == payload.id IN
  IF id # Undefined /\ MapHas(br.pendingSubmits, id[1]) THEN
    resolve(br, br.pendingSubmits[id[1]].resolve,
            SubmitResult(IF payload.success = Undefined THEN FALSE ELSE payload.success[1],
                         payload.rank, payload.scoreId, payload.error))
  ELSE br

\* mutant: responses are assumed to arrive in order; the oldest pending entry is taken
onSubmitResult_oldestPending(br, payload) ==
  IF DOMAIN br.pendingSubmits # {} THEN
    LET id == CHOOSE x \in DOMAIN br.pendingSubmits :
                 \A y \in DOMAIN br.pendingSubmits : x <= y
        pending == br.pendingSubmits[id]
        b1 == clearTimeout(br, pending.timeoutId)
        b2 == [b1 EXCEPT !.pendingSubmits = MapDelete(@, id)]
    IN resolve(b2, pending.resolve,
               SubmitResult(IF payload.success = Undefined THEN FALSE ELSE payload.success[1],
                            payload.rank, payload.scoreId, payload.error))
  ELSE br

\* handleMessage, case 'submit_result'
onSubmitResult(br, payload) ==
  LET id == payload.id IN
  IF id # Undefined /\ MapHas(br.pendingSubmits, id[1]) THEN
    LET pending == br.pendingSubmits[id[1]]
        b1 == clearTimeout(br, pending.timeoutId)
        b2 == [b1 EXCEPT !.pendingSubmits = MapDelete(@, id[1])]
    IN resolve(b2, pending.resolve,
               SubmitResult(IF payload.success = Undefined THEN FALSE ELSE payload.success[1],
                            payload.rank, payload.scoreId, payload.error))
  ELSE br

\* mutant: ready is set by any context message
onContext_alwaysReady(br, payload) ==
  IF Truthy(payload.gameId)
    THEN [br EXCEPT !.gameId = payload.gameId[1], !.ready = TRUE]
    ELSE [br EXCEPT !.ready = TRUE]

\* handleMessage, case 'context'
onContext(br, payload) ==
  IF Truthy(payload.gameId)
    THEN [br EXCEPT !.gameId = payload.gameId[1], !.ready = TRUE]
    ELSE br

\* mutant: the source tag of a message is not checked
handleMessage_anySource(br, event) ==
  IF ~event.isObject THEN br
  ELSE IF event.type = "context" THEN onContext(br, event.payload)
  ELSE IF event.type = "submit_result" THEN onSubmitResult(br, event.payload)
  ELSE br

\* handleMessage(event) of one bridge
handleMessage(br, event) ==
  IF ~event.isObject THEN br
  ELSE IF event.source # PARENT_SOURCE THEN br
  ELSE IF event.type = "context" THEN onContext(br, event.payload)
  ELSE IF event.type = "submit_result" THEN onSubmitResult(br, event.payload)
  ELSE br

\* platformBridge.submit(score): the promise executor, given what postToParent did
PlatformBridge_submit(br, post) ==
  LET id == br.submitId + 1
      b1 == [br EXCEPT !.submitId = id,
                       !.timers = @ \cup {id},
                       !.pendingSubmits = MapSet(@, id, [resolve |-> id, timeoutId |-> id])]
  IN IF post.threw THEN [b1 EXCEPT !.rejected = @ \cup {id}] ELSE b1

\* mutant: the timed-out entry stays in the map
timeoutCallback_noDelete(br, id) ==
  IF MapHas(br.pendingSubmits, id) THEN resolve(br, id, TimeoutResult) ELSE br

\* the setTimeout callback of submission id
timeoutCallback(br, id) ==
  IF MapHas(br.pendingSubmits, id)
    THEN resolve([br EXCEPT !.pendingSubmits = MapDelete(@, id)], id, TimeoutResult)
    ELSE br

RECURSIVE destroyLoop(_, _)
destroyLoop(br, ids) ==
  IF ids = {} THEN br
  ELSE LET id == CHOOSE x \in ids : \A y \in ids : x <= y
           pending == br.pendingSubmits[id]
       IN destroyLoop(resolve(clearTimeout(br, pending.timeoutId), pending.resolve,
                              DestroyedResult),
                      ids \ {id})

\* mutant: pendingSubmits.clear() is forgotten
PlatformBridge_destroy_noClear(br) ==
  destroyLoop([br EXCEPT !.listening = FALSE], DOMAIN br.pendingSubmits)

\* platformBridge.destroy()
PlatformBridge_destroy(br) ==
  LET b1 == [br EXCEPT !.listening = FALSE]
      b2 == destroyLoop(b1, DOMAIN b1.pendingSubmits)
  IN [b2 EXCEPT !.pendingSubmits = EmptyMap]

\* a facade that was never constructed, and a step that returned nothing.
\* overlay is the fallback overlay show() opened, if any: the closure state of
\* showFallbackUI, and as history (shown) the tab whose response it displays
NoFacade ==
  [isPlatform |-> FALSE, explicitGameId |-> Null, sortPreference |-> Null,
   platformBridge |-> FALSE, apiClient |-> FALSE, submitHandlers |-> <<>>,
   closures |-> <<>>,
   overlay |-> [open |-> FALSE, activeTab |-> "weekly", isLoading |-> FALSE,
                scores |-> <<>>, youEntry |-> Undefined, shown |-> Undefined]]
NoReturn == [op |-> "none"]

\* ---------------------------------------------------------------- actions
Post(msg, post) ==
  outbox' = IF post.delivered THEN Append(outbox, msg) ELSE outbox

\* the bridge-level specification drives one bridge directly
BridgeInst == {1}

InitBridge ==
  /\ bridge = [b \in Inst |-> IF b \in BridgeInst THEN createPlatformBridge ELSE NoBridge]
  /\ outbox \in { <<>>, <<OutMsg(SDK_SOURCE, "request_context", Undefined, Undefined)>> }
  /\ facade = [f \in Inst |-> NoFacade]
  /\ calls = [f \in Inst |-> {}]
  /\ http = {}
  /\ localStorage = [available |-> FALSE, writable |-> FALSE, playerId |-> <<>>,
                     audio |-> Undefined]
  /\ returned = NoReturn
  /\ NoAudio

\* a game calls bridge.submit(score)
BridgeSubmit(b, score, accessible) ==
  /\ bridge[b].submitId < MaxSubmits
  /\ LET post == postToParent(accessible) IN
       /\ bridge' = [bridge EXCEPT ![b] = PlatformBridge_submit(@, post)]
       /\ Post(OutMsg(SDK_SOURCE, "submit_score", Some(bridge[b].submitId + 1), Some(score)), post)
  /\ UNCHANGED <<facadeVars, audioVars>>

\* the window dispatches one 'message' event to every registered listener
Dispatch(event) ==
  /\ bridge' = [b \in Inst |-> IF bridge[b].listening
                                 THEN handleMessage(bridge[b], event)
                                 ELSE bridge[b]]
  /\ UNCHANGED outbox
  /\ UNCHANGED <<facadeVars, audioVars>>

\* the 10 s timer of submission id fires
TimerFire(b, id) ==
  /\ id \in bridge[b].timers
  /\ bridge' = [bridge EXCEPT ![b] = timeoutCallback([@ EXCEPT !.timers = @ \ {id}], id)]
  /\ UNCHANGED outbox
  /\ UNCHANGED <<facadeVars, audioVars>>

BridgeShow(b, accessible) ==
  /\ Cardinality({i \in 1..Len(outbox) : outbox[i].source = RUNTIME_SOURCE}) < MaxShows
  /\ Post(OutMsg(RUNTIME_SOURCE, "star_show_leaderboard", Undefined, Undefined),
          postToParentRuntime(accessible))
  /\ UNCHANGED bridge
  /\ UNCHANGED <<facadeVars, audioVars>>

BridgeDestroy(b) ==
  /\ bridge' = [bridge EXCEPT ![b] = PlatformBridge_destroy(@)]
  /\ UNCHANGED outbox
  /\ UNCHANGED <<facadeVars, audioVars>>

NextBridge ==
  \/ \E b \in BridgeInst, accessible \in BOOLEAN : BridgeSubmit(b, 1500, accessible)
  \/ \E event \in Events : Dispatch(event)
  \/ \E b \in BridgeInst, id \in Ids : TimerFire(b, id)
  \/ \E b \in BridgeInst, accessible \in BOOLEAN : BridgeShow(b, accessible)
  \/ \E b \in BridgeInst : BridgeDestroy(b)

SpecBridge == InitBridge /\ [][NextBridge]_vars

\* armed timers eventually fire
SpecBridgeFair ==
  SpecBridge /\ \A b \in BridgeInst, id \in Ids : WF_vars(TimerFire(b, id))

\* ------------------------------------------------------ bridge properties
Allocated(br, id) == id <= br.submitId
Fulfilled(br, id) == id \notin br.rejected /\ br.resolveCalls[id] # <<>>

\* the result handleMessage builds from a submit_result payload
ResponseFields(payload) ==
  SubmitResult(payload.success = Some(TRUE), payload.rank, payload.scoreId, payload.error)

IsMessageResult(r) == \E body \in ResultBodies :
  r = SubmitResult(body.success = Some(TRUE), body.rank, body.scoreId, body.error)

\* C1: every submission created by submit() is either still pending (entry in
\* the map, not yet resolved) or was resolved exactly once, by a response, by
\* its timeout or by destroy(); once resolved its entry is gone from the
\* pending set and its timer is no longer armed.
C1_ExactlyOneResolution ==
  \A b \in Inst, id \in Ids :
    LET br == bridge[b] IN
      /\ Len(br.resolveCalls[id]) <= 1
      /\ ~Allocated(br, id) => br.resolveCalls[id] = <<>> /\ ~MapHas(br.pendingSubmits, id)
      /\ Allocated(br, id) => (MapHas(br.pendingSubmits, id) <=> br.resolveCalls[id] = <<>>)
      /\ br.resolveCalls[id] # <<>> =>
           /\ id \notin br.timers
           /\ \/ br.resolveCalls[id][1] = TimeoutResult
              \/ br.resolveCalls[id][1] = DestroyedResult
              \/ IsMessageResult(br.resolveCalls[id][1])

\* one submission answered by a response, the other ended by its timeout,
\* and destroy() ran afterwards
C1_Witness ==
  \E b \in BridgeInst, i, k \in Ids :
    /\ bridge[b].resolveCalls[i] = <<TimeoutResult>>
    /\ Len(bridge[b].resolveCalls[k]) = 1 /\ IsMessageResult(bridge[b].resolveCalls[k][1])
    /\ ~bridge[b].listening

\* C2: each submit() takes an ID larger than every ID allocated before on that
\* bridge, and a submit_result event resolves only the submission whose ID it
\* carries, with the response's own success, rank, scoreId and error.
C2_CorrelationSafety ==
  [][ /\ \A b \in Inst :
           /\ bridge'[b].submitId >= bridge[b].submitId
           /\ \A id \in (DOMAIN bridge'[b].pendingSubmits) \ (DOMAIN bridge[b].pendingSubmits) :
                id = bridge'[b].submitId /\ id > bridge[b].submitId
           /\ \A id, id2 \in DOMAIN bridge[b].pendingSubmits :
                bridge[b].pendingSubmits[id].resolve = bridge[b].pendingSubmits[id2].resolve
                  => id = id2
      /\ \A b \in Inst, id \in Ids :
           bridge'[b].resolveCalls[id] # bridge[b].resolveCalls[id] =>
             \A event \in Events : Dispatch(event) =>
               /\ event.payload.id = Some(id)
               /\ bridge'[b].resolveCalls[id] = <<ResponseFields(event.payload)>>
    ]_vars

\* responses arrived out of order: 2 was answered while 1 is still in flight
C2_Witness ==
  \E b \in BridgeInst :
    /\ MapHas(bridge[b].pendingSubmits, 1)
    /\ bridge[b].resolveCalls[2] = <<SubmitResult(TRUE, Some(4), Some("abc"), Undefined)>>

\* C3: when the timer of a still-pending submission fires, the submission is
\* resolved once with the timeout failure; afterwards a submit_result event
\* carrying that ID changes nothing in the bridge.
C3_TimeoutInvariant ==
  [][ \A b \in Inst, id \in Ids :
        /\ (TimerFire(b, id) /\ MapHas(bridge[b].pendingSubmits, id))
             => bridge'[b].resolveCalls[id] = <<TimeoutResult>>
        /\ bridge[b].resolveCalls[id] = <<TimeoutResult>> =>
             /\ bridge'[b].resolveCalls[id] = <<TimeoutResult>>
             /\ \A event \in Events :
                  (event.payload.id = Some(id) /\ Dispatch(event)) => bridge'[b] = bridge[b]
    ]_vars

C3_Witness ==
  \E b \in BridgeInst, id \in Ids :
    /\ bridge[b].resolveCalls[id] = <<TimeoutResult>>
    /\ bridge[b].listening

\* C4: every promise submit() returned is eventually fulfilled (its resolve was
\* called and its executor did not throw), whether or not the outbound post
\* reached the parent, given that armed timers eventually fire.
C4_EventuallyResolved ==
  \A b \in BridgeInst, id \in Ids :
    Allocated(bridge[b], id) ~> Fulfilled(bridge[b], id)

\* a submission whose outbound message was swallowed ended by timeout
C4_Witness ==
  \E b \in BridgeInst :
    /\ bridge[b].resolveCalls[1] = <<TimeoutResult>>
    /\ \A i \in 1..Len(outbox) : outbox[i].type # "submit_score"

\* C5: destroy() removes the listener, resolves each submission pending at that
\* moment once with the destroyed failure, leaves the pending set empty and
\* none of their timers armed; destroy() on an already destroyed bridge with
\* nothing pending changes nothing.
C5_Destroy ==
  [][ \A b \in Inst : BridgeDestroy(b) =>
        /\ ~bridge'[b].listening
        /\ bridge'[b].pendingSubmits = EmptyMap
        /\ bridge'[b].timers \cap DOMAIN bridge[b].pendingSubmits = {}
        /\ \A id \in Ids :
             bridge'[b].resolveCalls[id] =
               IF MapHas(bridge[b].pendingSubmits, id)
                 THEN <<DestroyedResult>> ELSE bridge[b].resolveCalls[id]
        /\ (~bridge[b].listening /\ bridge[b].pendingSubmits = EmptyMap) => UNCHANGED vars
    ]_vars

C5_Witness ==
  \E b \in BridgeInst, i, j \in Ids :
    /\ i # j
    /\ ~bridge[b].listening
    /\ bridge[b].resolveCalls[i] = <<DestroyedResult>>
    /\ bridge[b].resolveCalls[j] = <<DestroyedResult>>
    /\ bridge[b].timers = {}

\* ----------------------------------------------------- direct API client
\* what fetch() and response.json() may yield for one request
OkBody ==
  [isNull |-> FALSE,                       \* the body is the JSON text null
   error |-> Undefined, success |-> TRUE, rank |-> Some(4), scoreId |-> Some("abc"),
   shareUrl |-> Some("https://share/x"),
   scores |-> Some(<< [id |-> "s1", playerName |-> "Ann", score |-> 900, rank |-> Some(1)],
                      [id |-> "s2", playerName |-> "Bob", score |-> 700, rank |-> Undefined] >>),
   timeframe |-> "all_time", you |-> Undefined]
NullBody == [OkBody EXCEPT !.isNull = TRUE]
\* the message of the TypeError a property read on null throws
NullTypeError == "Cannot read properties of null"
Response(fetchOk, status, jsonOk, body) ==
  [fetchOk |-> fetchOk, status |-> status, jsonOk |-> jsonOk, body |-> body]
ApiResponses ==
  { Response(FALSE, 0, FALSE, OkBody),     \* network failure: fetch rejects
    Response(TRUE, 404, TRUE, [OkBody EXCEPT !.error = Some("Game not found")]),  \* non-2xx with an error field
    Response(TRUE, 500, FALSE, OkBody),    \* non-2xx, body not JSON
    Response(TRUE, 200, FALSE, OkBody),    \* 2xx, body not JSON
    Response(TRUE, 200, TRUE, OkBody),
    Response(TRUE, 200, TRUE,
             [OkBody EXCEPT !.success = FALSE, !.rank = Undefined, !.scoreId = Undefined]),
    Response(TRUE, 500, TRUE, NullBody),   \* non-2xx, body is null
    Response(TRUE, 200, TRUE, NullBody),   \* 2xx, body is null
    Response(TRUE, 200, TRUE, [OkBody EXCEPT !.scores = Undefined]),
    Response(TRUE, 200, TRUE,
             [OkBody EXCEPT !.scores =
                Some(<< [id |-> "s7", playerName |-> "Cy", score |-> 800, rank |-> Some(3)],
                        [id |-> "s8", playerName |-> "Di", score |-> 650, rank |-> Undefined],
                        [id |-> "s9", playerName |-> "Ed", score |-> 500, rank |-> Some(0)] >>)]),
    \* the server found the player's own entry and gave no rank for it
    Response(TRUE, 200, TRUE,
             [OkBody EXCEPT !.you = Some([id |-> "s5", playerName |-> "Player-9f3c",
                                          score |-> 300, rank |-> Undefined])]) }

\* request<T>(): either the parsed body or a thrown Error
request(resp) ==
  IF ~resp.fetchOk THEN [threw |-> TRUE, message |-> "Failed to fetch", body |-> resp.body]
  ELSE IF ~(resp.status >= 200 /\ resp.status <= 299) THEN
    [threw |-> TRUE,
     \* errorData.error || `HTTP ${response.status}`; errorData is {} when
     \* response.json() rejects, and null.error throws
     message |-> IF resp.jsonOk /\ resp.body.isNull THEN NullTypeError
                 ELSE IF resp.jsonOk /\ Truthy(resp.body.error)
                   THEN resp.body.error[1] ELSE "HTTP " \o ToString(resp.status),
     body |-> resp.body]
  ELSE IF ~resp.jsonOk THEN
    [threw |-> TRUE, message |-> "Unexpected token", body |-> resp.body]
  ELSE [threw |-> FALSE, message |-> "", body |-> resp.body]

\* apiClient.submit(): the result for a given response
ApiClient_submit(resp) ==
  LET r == request(resp) IN
  IF r.threw THEN SubmitResult(FALSE, Undefined, Undefined, Some(r.message))
  ELSE IF r.body.isNull THEN SubmitResult(FALSE, Undefined, Undefined, Some(NullTypeError))
  ELSE SubmitResult(r.body.success, r.body.rank, r.body.scoreId, Undefined)

\* mutant: the requested timeframe is not echoed
EmptySnapshot_weekly(timeframe) ==
  [scores |-> <<>>, timeframe |-> "weekly", you |-> Undefined]

\* the empty data getScores returns: options.timeframe ?? 'weekly'
EmptySnapshot(timeframe) ==
  [scores |-> <<>>, timeframe |-> IF timeframe = Undefined THEN "weekly" ELSE timeframe[1],
   you |-> Undefined]

\* mutant: every entry is ranked by its position
ApiClient_getScores_byPosition(resp, timeframe) ==
  LET r == request(resp) IN
  IF r.threw \/ r.body.isNull \/ r.body.scores = Undefined THEN EmptySnapshot(timeframe)
  ELSE [scores |-> [i \in 1..Len(r.body.scores[1]) |->
                      [id |-> r.body.scores[1][i].id,
                       playerName |-> r.body.scores[1][i].playerName,
                       score |-> r.body.scores[1][i].score,
                       rank |-> i]],
        timeframe |-> r.body.timeframe,
        you |-> Undefined]

\* apiClient.getScores(): the snapshot for a given response
ApiClient_getScores(resp, timeframe) ==
  LET r == request(resp) IN
  IF r.threw \/ r.body.isNull \/ r.body.scores = Undefined THEN EmptySnapshot(timeframe)
  ELSE [scores |-> [i \in 1..Len(r.body.scores[1]) |->
                      [id |-> r.body.scores[1][i].id,
                       playerName |-> r.body.scores[1][i].playerName,
                       score |-> r.body.scores[1][i].score,
                       rank |-> IF r.body.scores[1][i].rank = Undefined
                                  THEN i ELSE r.body.scores[1][i].rank[1]]],
        timeframe |-> r.body.timeframe,
        you |-> IF r.body.you = Undefined THEN Undefined
                ELSE Some([id |-> r.body.you[1].id, playerName |-> r.body.you[1].playerName,
                           score |-> r.body.you[1].score,
                           rank |-> IF r.body.you[1].rank = Undefined
                                      THEN 0 ELSE r.body.you[1].rank[1]])]

ShareResult(success, shareUrl, error) ==
  [success |-> success, shareUrl |-> shareUrl, error |-> error]

\* apiClient.share(): the result for a given response
ApiClient_share(resp) ==
  LET r == request(resp) IN
  IF r.threw THEN ShareResult(FALSE, Undefined, Some(r.message))
  ELSE IF r.body.isNull THEN ShareResult(FALSE, Undefined, Some(NullTypeError))
  ELSE ShareResult(TRUE, r.body.shareUrl, Undefined)

\* one fetch() issued by facade f for the call in slot
Fetch(f, slot, method, endpoint, gid, score, playerName, sort, timeframe) ==
  [inst |-> f, slot |-> slot, method |-> method, endpoint |-> endpoint, gameId |-> gid,
   score |-> score, playerName |-> playerName, sort |-> sort, timeframe |-> timeframe]

\* --------------------------------------------------------- guest identity
\* crypto.randomUUID(), as a sequence of characters
UUIDs == { <<"0", "e", "9", "f", "3", "c">>, <<"7", "7", "a", "1", "b", "2">> }

\* mutant: a fresh identifier is stored on every call
getOrCreatePlayerId_alwaysNew(ls, uuid) ==
  IF ~ls.available THEN [id |-> <<>>, storage |-> ls]
  ELSE IF ~ls.writable THEN [id |-> <<>>, storage |-> ls]
  ELSE [id |-> uuid, storage |-> [ls EXCEPT !.playerId = uuid]]

\* getOrCreatePlayerId(): the id returned (<<>> for null) and the storage
\* afterwards; getItem throws when storage is unavailable, setItem throws when
\* it is not writable, and either lands in the catch
getOrCreatePlayerId(ls, uuid) ==
  IF ~ls.available THEN [id |-> <<>>, storage |-> ls]
  ELSE IF ls.playerId = <<>> THEN
    IF ls.writable THEN [id |-> uuid, storage |-> [ls EXCEPT !.playerId = uuid]]
    ELSE [id |-> <<>>, storage |-> ls]
  ELSE [id |-> ls.playerId, storage |-> ls]

\* getDefaultPlayerName(): "Player-" + id.slice(-4), or null
getDefaultPlayerName(ls, uuid) ==
  LET got == getOrCreatePlayerId(ls, uuid) IN
  [name |-> IF got.id # <<>>
              THEN Some(<<"Player-">> \o SubSeq(got.id, Len(got.id) - 3, Len(got.id)))
              ELSE Undefined,
   storage |-> got.storage]

\* ------------------------------------------------------ leaderboard facade
\* the scores a game may pass to submit()
Score(kind, val) == [kind |-> kind, val |-> val]
Scores == { Score("number", 1500), Score("NaN", 0), Score("Infinity", 0),
            Score("-Infinity", 0), Score("string", 0) }
TypeofNumber(score) == score.kind \in {"number", "NaN", "Infinity", "-Infinity"}
IsFinite(score) == score.kind = "number"

\* mutant: only the typeof test
validScore_typeofOnly(score) == TypeofNumber(score)

\* submit: typeof score === 'number' && isFinite(score)
validScore(score) == TypeofNumber(score) /\ IsFinite(score)

InvalidScoreResult == SubmitResult(FALSE, Undefined, Undefined, Some("Invalid score value"))
GameIdRequiredResult ==
  SubmitResult(FALSE, Undefined, Undefined,
               Some("gameId is required. Run \"npx star-sdk init\" to register your game."))

\* the observers a game registers, and what each does when invoked
Handlers == {"plain", "thrower", "remover"}
HandlerThrows(h) == h = "thrower"
HandlerUnsubscribes(h) == IF h = "remover" THEN {"remover", "plain"} ELSE {}
HandlerErrorResult == SubmitResult(FALSE, Undefined, Undefined, Some("observer failed"))

\* Set.add / Set.delete on an insertion-ordered Set
SetAdd(hs, h) == IF \E i \in 1..Len(hs) : hs[i] = h THEN hs ELSE Append(hs, h)
SetDelete(hs, gone) == SelectSeq(hs, LAMBDA x : x \notin gone)

\* mutant: no try/catch around handler(result)
tryHandler_noCatch(h) == [propagates |-> HandlerThrows(h)]

\* try { handler(result) } catch { error(...) }
tryHandler(h) == [propagates |-> FALSE]

RECURSIVE fanOutFrom(_, _, _, _)
fanOutFrom(hs, i, result, invoked) ==
  IF i > Len(hs) THEN [handlers |-> hs, invoked |-> invoked, threw |-> FALSE]
  ELSE
    LET h == hs[i]
        hs2 == SetDelete(hs, HandlerUnsubscribes(h))
        \* deleted entries at or before the cursor move the cursor back
        gone == Cardinality({j \in 1..i : hs[j] \in HandlerUnsubscribes(h)})
        inv2 == Append(invoked, [handler |-> h, arg |-> result])
    IN IF tryHandler(h).propagates
         THEN [handlers |-> hs2, invoked |-> inv2, threw |-> TRUE]
         ELSE fanOutFrom(hs2, i + 1 - gone, result, inv2)

\* mutant: iteration by position over the live list, the position not adjusted
\* when entries at or before it are deleted
RECURSIVE fanOutByPosition(_, _, _, _)
fanOutByPosition(hs, i, result, invoked) ==
  IF i > Len(hs) THEN [handlers |-> hs, invoked |-> invoked, threw |-> FALSE]
  ELSE fanOutByPosition(SetDelete(hs, HandlerUnsubscribes(hs[i])), i + 1, result,
                        Append(invoked, [handler |-> hs[i], arg |-> result]))
fanOut_skipsAfterDelete(hs, result) == fanOutByPosition(hs, 1, result, <<>>)

\* mutant: the handlers are notified newest first
fanOut_reversed(hs, result) ==
  fanOutFrom([i \in 1..Len(hs) |-> hs[Len(hs) + 1 - i]], 1, result, <<>>)

\* for (const handler of submitHandlers) { ... }
fanOut(hs, result) == fanOutFrom(hs, 1, result, <<>>)

\* mutant: a missing gameId is not checked
hasGameId_unchecked(gid) == TRUE

\* if (!gid) ...
hasGameId(gid) == gid # Null /\ gid # ""

\* getGameId()
getGameId(f) ==
  IF facade[f].explicitGameId # Null THEN facade[f].explicitGameId
  ELSE IF facade[f].platformBridge THEN bridge[f].gameId
  ELSE Null

\* createLeaderboardImpl(options) with detectPlatformContext() = isPlatform
createLeaderboardImpl(isPlatform, gameId, sort) ==
  [isPlatform |-> isPlatform, explicitGameId |-> gameId, sortPreference |-> sort,
   platformBridge |-> isPlatform, apiClient |-> ~isPlatform, submitHandlers |-> <<>>,
   closures |-> <<>>, overlay |-> NoFacade.overlay]

Configs == { createLeaderboardImpl(p, g, Null) : p \in BOOLEAN, g \in {Null, "g1"} }
             \cup { createLeaderboardImpl(FALSE, "g1", "desc") }

\* what the page has done towards the outside: posts after request_context,
\* and fetches still in flight
Activity ==
  Cardinality({i \in 1..Len(outbox) : outbox[i].type # "request_context"})
    + Cardinality(http)

ApiCalls(f) == {c \in calls[f] : c.via = "api"}
FreeSlot(f) == CHOOSE k \in 1..(Cardinality(ApiCalls(f)) + 1) :
  /\ \A c \in ApiCalls(f) : c.slot # k
  /\ \A j \in 1..(k - 1) : \E c \in ApiCalls(f) : c.slot = j

ApiCall(op, slot, score, timeframe) ==
  [op |-> op, via |-> "api", id |-> 0, slot |-> slot, score |-> score,
   timeframe |-> timeframe]

Return(f, op, result, invoked) ==
  [op |-> op, inst |-> f, result |-> result, invoked |-> invoked]

\* a suspended call whose awaited promise is settled: its continuation is a
\* queued microtask
Runnable(f, c) ==
  /\ c.via = "bridge"
  /\ \/ bridge[f].resolveCalls[c.id] # <<>>
     \/ c.id \in bridge[f].rejected
NoMicrotask == \A f \in Inst : \A c \in calls[f] : ~Runnable(f, c)

\* the facades of the page are constructed
InitPage(FI, Cfgs, Access, Storages) ==
  \E cfg \in [FI -> Cfgs], accessible \in Access, storage \in Storages :
    /\ facade = [f \in Inst |-> IF f \in FI THEN cfg[f] ELSE NoFacade]
    /\ bridge = [f \in Inst |-> IF f \in FI /\ cfg[f].isPlatform
                                  THEN createPlatformBridge ELSE NoBridge]
    /\ outbox = IF accessible /\ (\E f \in FI : cfg[f].isPlatform)
                  THEN <<OutMsg(SDK_SOURCE, "request_context", Undefined, Undefined)>>
                  ELSE <<>>
    /\ calls = [f \in Inst |-> {}]
    /\ http = {}
    /\ localStorage = storage
    /\ returned = NoReturn
    /\ NoAudio

\* facade.submit(score, options)
Submit(f, score, playerName, accessible, uuid, budget) ==
  IF ~validScore(score) THEN
    /\ returned' = Return(f, "submit", InvalidScoreResult, <<>>)
    /\ UNCHANGED <<audioVars, bridge, outbox, facade, calls, http, localStorage>>
  ELSE IF facade[f].isPlatform /\ facade[f].platformBridge THEN
    /\ bridge[f].submitId < MaxSubmits /\ Activity < budget
    /\ LET post == postToParent(accessible) IN
         /\ bridge' = [bridge EXCEPT ![f] = PlatformBridge_submit(@, post)]
         /\ Post(OutMsg(SDK_SOURCE, "submit_score", Some(bridge[f].submitId + 1),
                        Some(score.val)), post)
    /\ calls' = [calls EXCEPT ![f] = @ \cup {[op |-> "submit", via |-> "bridge",
                                               id |-> bridge[f].submitId + 1, slot |-> 0,
                                               score |-> score, timeframe |-> Undefined]}]
    /\ returned' = NoReturn
    /\ UNCHANGED <<audioVars, facade, http, localStorage>>
  ELSE IF facade[f].apiClient THEN
    IF ~hasGameId(getGameId(f)) THEN
      /\ returned' = Return(f, "submit", GameIdRequiredResult, <<>>)
      /\ UNCHANGED <<audioVars, bridge, outbox, facade, calls, http, localStorage>>
    ELSE
      /\ Activity < budget
      /\ LET dflt == IF Truthy(playerName)
                       THEN [name |-> playerName, storage |-> localStorage]
                       ELSE getDefaultPlayerName(localStorage, uuid)
             slot == FreeSlot(f)
         IN /\ localStorage' = dflt.storage
            /\ http' = http \cup
                 {Fetch(f, slot, "POST", "submit", getGameId(f), Some(score.val), dflt.name,
                        IF facade[f].sortPreference = Null THEN Undefined
                          ELSE Some(IF facade[f].sortPreference = "asc" THEN "ASC" ELSE "DESC"),
                        Undefined)}
            /\ calls' = [calls EXCEPT ![f] = @ \cup {ApiCall("submit", slot, score, Undefined)}]
      /\ returned' = NoReturn
      /\ UNCHANGED <<audioVars, bridge, outbox, facade>>
  ELSE
    /\ returned' = Return(f, "submit",
                         SubmitResult(FALSE, Undefined, Undefined, Some("Not initialized")),
                         <<>>)
    /\ UNCHANGED <<audioVars, bridge, outbox, facade, calls, http, localStorage>>

\* submit resumes after `await platformBridge.submit(score)`
Resume(f, c) ==
  /\ c \in calls[f]
  /\ Runnable(f, c)
  /\ calls' = [calls EXCEPT ![f] = @ \ {c}]
  /\ IF c.id \in bridge[f].rejected THEN
       \* the await throws: the outer catch returns the failure
       /\ returned' = Return(f, "submit", SubmitResult(FALSE, Undefined, Undefined, Some("postMessage failed")),
                             <<>>)
       /\ UNCHANGED facade
     ELSE
       LET result == bridge[f].resolveCalls[c.id][1]
           fo == fanOut(facade[f].submitHandlers, result)
       IN /\ facade' = [facade EXCEPT ![f].submitHandlers = fo.handlers]
          /\ returned' = Return(f, "submit", IF fo.threw THEN HandlerErrorResult ELSE result, fo.invoked)
  /\ UNCHANGED <<audioVars, bridge, outbox, http, localStorage>>

\* an HTTP exchange ends and the call that awaited it runs to its end
ApiRespond(f, c, resp) ==
  /\ NoMicrotask
  /\ c \in calls[f] /\ c.via = "api"
  /\ calls' = [calls EXCEPT ![f] = @ \ {c}]
  /\ http' = {q \in http : ~(q.inst = f /\ q.slot = c.slot)}
  /\ IF c.op = "submit" THEN
       LET result == ApiClient_submit(resp)
           fo == fanOut(facade[f].submitHandlers, result)
       IN /\ facade' = [facade EXCEPT ![f].submitHandlers = fo.handlers]
          /\ returned' = Return(f, "submit", IF fo.threw THEN HandlerErrorResult ELSE result, fo.invoked)
     ELSE IF c.op = "getScores" THEN
       /\ returned' = Return(f, "getScores", ApiClient_getScores(resp, c.timeframe), <<>>)
       /\ UNCHANGED facade
     ELSE
       /\ returned' = Return(f, "share", ApiClient_share(resp), <<>>)
       /\ UNCHANGED facade
  /\ UNCHANGED <<audioVars, bridge, outbox, localStorage>>

\* facade.getScores(opts)
GetScores(f, timeframe, uuid, budget) ==
  IF ~hasGameId(getGameId(f)) THEN
    /\ returned' = Return(f, "getScores", EmptySnapshot(timeframe), <<>>)
    /\ UNCHANGED <<audioVars, bridge, outbox, facade, calls, http, localStorage>>
  ELSE
    /\ Activity < budget
    /\ LET dflt == getDefaultPlayerName(localStorage, uuid)
           slot == FreeSlot(f)
       IN /\ localStorage' = dflt.storage
          /\ http' = http \cup
               {Fetch(f, slot, "GET", "scores", getGameId(f), Undefined, dflt.name,
                      Undefined, timeframe)}
          /\ calls' = [calls EXCEPT ![f] =
                         @ \cup {ApiCall("getScores", slot, Score("none", 0), timeframe)}]
    /\ facade' = [facade EXCEPT ![f].apiClient = TRUE]
    /\ returned' = NoReturn
    /\ UNCHANGED <<audioVars, bridge, outbox>>

\* facade.share(opts)
Share(f, budget) ==
  IF ~hasGameId(getGameId(f)) THEN
    /\ returned' = Return(f, "share",
                          ShareResult(FALSE, Undefined,
                                      Some("gameId is required. Run \"npx star-sdk init\" to register your game.")),
                          <<>>)
    /\ UNCHANGED <<audioVars, bridge, outbox, facade, calls, http, localStorage>>
  ELSE
    /\ Activity < budget
    /\ http' = http \cup
         {Fetch(f, FreeSlot(f), "POST", "share", getGameId(f), Undefined, Undefined,
                Undefined, Undefined)}
    /\ calls' = [calls EXCEPT ![f] =
                   @ \cup {ApiCall("share", FreeSlot(f), Score("none", 0), Undefined)}]
    /\ facade' = [facade EXCEPT ![f].apiClient = TRUE]
    /\ returned' = NoReturn
    /\ UNCHANGED <<audioVars, bridge, outbox, localStorage>>

\* facade.show(): the host's leaderboard in platform mode, else the fallback
\* overlay, whose initial loadScores() calls getScores({timeframe: 'weekly'})
Show(f, accessible, uuid, budget) ==
  IF facade[f].isPlatform /\ facade[f].platformBridge THEN
    /\ Activity < budget
    /\ Post(OutMsg(RUNTIME_SOURCE, "star_show_leaderboard", Undefined, Undefined),
            postToParentRuntime(accessible))
    /\ returned' = NoReturn
    /\ UNCHANGED <<audioVars, bridge, facade, calls, http, localStorage>>
  ELSE GetScores(f, Some("weekly"), uuid, budget)

\* facade.show() outside the platform, for a game with a gameId and no
\* overlay open: showFallbackUI up to the await of its initial loadScores()
ShowFallbackUI(f, uuid, budget) ==
  /\ ~(facade[f].isPlatform /\ facade[f].platformBridge)
  /\ hasGameId(getGameId(f))
  /\ ~facade[f].overlay.open
  /\ Activity < budget
  /\ LET dflt == getDefaultPlayerName(localStorage, uuid)
         slot == FreeSlot(f)
     IN /\ localStorage' = dflt.storage
        /\ http' = http \cup
             {Fetch(f, slot, "GET", "scores", getGameId(f), Undefined, dflt.name,
                    Undefined, Some("weekly"))}
        /\ calls' = [calls EXCEPT ![f] =
                       @ \cup {[ApiCall("getScores", slot, Score("none", 0), Some("weekly"))
                                  EXCEPT !.op = "loadScores"]}]
  /\ facade' = [facade EXCEPT ![f].apiClient = TRUE,
                              ![f].overlay = [NoFacade.overlay EXCEPT !.open = TRUE,
                                                                      !.isLoading = TRUE]]
  /\ returned' = NoReturn
  /\ UNCHANGED <<audioVars, bridge, outbox>>

\* a click on a tab of the overlay: switchTab(tab), up to the await of its
\* loadScores()
SwitchTab(f, tab, uuid, budget) ==
  /\ facade[f].overlay.open
  /\ Activity < budget
  /\ LET dflt == getDefaultPlayerName(localStorage, uuid)
         slot == FreeSlot(f)
     IN /\ localStorage' = dflt.storage
        /\ http' = http \cup
             {Fetch(f, slot, "GET", "scores", getGameId(f), Undefined, dflt.name,
                    Undefined, Some(tab))}
        /\ calls' = [calls EXCEPT ![f] =
                       @ \cup {[ApiCall("getScores", slot, Score("none", 0), Some(tab))
                                  EXCEPT !.op = "loadScores"]}]
  /\ facade' = [facade EXCEPT ![f].overlay.activeTab = tab,
                              ![f].overlay.isLoading = TRUE]
  /\ returned' = NoReturn
  /\ UNCHANGED <<audioVars, bridge, outbox>>

\* the HTTP exchange of a loadScores() ends: getScores resolves and the rest
\* of loadScores runs (getScores does not reject, so the catch is not taken)
LoadScoresRespond(f, c, resp) ==
  /\ c \in calls[f] /\ c.op = "loadScores"
  /\ calls' = [calls EXCEPT ![f] = @ \ {c}]
  /\ http' = {q \in http : ~(q.inst = f /\ q.slot = c.slot)}
  /\ facade' = [facade EXCEPT
                  ![f].overlay.scores = ApiClient_getScores(resp, c.timeframe).scores,
                  ![f].overlay.youEntry = ApiClient_getScores(resp, c.timeframe).you,
                  ![f].overlay.isLoading = FALSE,
                  ![f].overlay.shown = c.timeframe]
  /\ returned' = Return(f, "getScores", ApiClient_getScores(resp, c.timeframe), <<>>)
  /\ UNCHANGED <<audioVars, bridge, outbox, localStorage>>

\* facade.onSubmit(fn)
OnSubmit(f, h) ==
  /\ facade' = [facade EXCEPT ![f].submitHandlers = SetAdd(@, h)]
  /\ returned' = NoReturn
  /\ UNCHANGED <<audioVars, bridge, outbox, calls, http, localStorage>>

\* a closure onSubmit(h) returned is called (its only effect is
\* submitHandlers.delete(h), so it is modelled as callable at any time)
Unsubscribe(f, h) ==
  /\ facade' = [facade EXCEPT ![f].submitHandlers = SetDelete(@, {h})]
  /\ returned' = NoReturn
  /\ UNCHANGED <<audioVars, bridge, outbox, calls, http, localStorage>>

\* facade.onSubmit(fn), the game holding on to the closure it returns: the
\* closure captures fn, and the model records how often it was called
OnSubmitTracked(f, h) ==
  /\ Len(facade[f].closures) < MaxClosures
  /\ facade' = [facade EXCEPT ![f].submitHandlers = SetAdd(@, h),
                              ![f].closures = Append(@, [fn |-> h, called |-> FALSE])]
  /\ returned' = NoReturn
  /\ UNCHANGED <<audioVars, bridge, outbox, calls, http, localStorage>>

\* the k-th closure the game holds is called: submitHandlers.delete(fn)
CallUnsubscribe(f, k) ==
  /\ k \in 1..Len(facade[f].closures)
  /\ facade' = [facade EXCEPT ![f].submitHandlers = SetDelete(@, {facade[f].closures[k].fn}),
                              ![f].closures[k].called = TRUE]
  /\ returned' = NoReturn
  /\ UNCHANGED <<audioVars, bridge, outbox, calls, http, localStorage>>

\* facade.destroy()
Destroy(f) ==
  /\ bridge' = IF facade[f].platformBridge
                 THEN [bridge EXCEPT ![f] = PlatformBridge_destroy(@)] ELSE bridge
  /\ facade' = [facade EXCEPT ![f].platformBridge = FALSE, ![f].submitHandlers = <<>>]
  /\ returned' = NoReturn
  /\ UNCHANGED <<audioVars, outbox, calls, http, localStorage>>

\* a 'message' event reaches the page: a task, run when no microtask is queued
PageDispatch(event) ==
  /\ NoMicrotask
  /\ bridge' = [b \in Inst |-> IF bridge[b].listening
                                 THEN handleMessage(bridge[b], event)
                                 ELSE bridge[b]]
  /\ returned' = NoReturn
  /\ UNCHANGED <<audioVars, outbox, facade, calls, http, localStorage>>

\* a submission's 10 s timer fires: a task
PageTimerFire(b, id) ==
  /\ NoMicrotask
  /\ id \in bridge[b].timers
  /\ bridge' = [bridge EXCEPT ![b] = timeoutCallback([@ EXCEPT !.timers = @ \ {id}], id)]
  /\ returned' = NoReturn
  /\ UNCHANGED <<audioVars, outbox, facade, calls, http, localStorage>>

\* the 'message' events of the facade-level runs: every event, except that the
\* host's answers to a submission are the successful ones
PageEvents ==
  { e \in Events : (e.source = PARENT_SOURCE /\ e.isObject /\ e.payload.defined
                      /\ e.payload.id # Undefined)
                     => e.payload.success = Some(TRUE) }

NextPage(FI, HS, Access, Evts, UU, budget) ==
  \/ \E f \in FI, score \in Scores, accessible \in Access, uuid \in UU,
        playerName \in {Undefined, Some(<<"Ann">>)} :
       Submit(f, score, playerName, accessible, uuid, budget)
  \/ \E f \in FI : \E c \in calls[f] : Resume(f, c)
  \/ \E f \in FI, resp \in ApiResponses : \E c \in calls[f] : ApiRespond(f, c, resp)
  \/ \E f \in FI, uuid \in UU, timeframe \in {Undefined, Some("all_time")} :
       GetScores(f, timeframe, uuid, budget)
  \/ \E f \in FI : Share(f, budget)
  \/ \E f \in FI, accessible \in Access, uuid \in UU : Show(f, accessible, uuid, budget)
  \/ \E f \in FI, h \in HS : OnSubmit(f, h)
  \/ \E f \in FI, h \in HS : Unsubscribe(f, h)
  \/ \E f \in FI : Destroy(f)
  \/ \E event \in Evts : PageDispatch(event)
  \/ \E b \in FI, id \in Ids : PageTimerFire(b, id)

Storage(available, playerId) ==
  [available |-> available, writable |-> available, playerId |-> playerId,
   audio |-> Undefined]

\* one facade, all observers, an accessible parent, a returning player
Init == InitPage({1}, Configs, {TRUE}, {Storage(TRUE, <<"0", "e", "9", "f", "3", "c">>)})
Next == NextPage({1}, Handlers, {TRUE}, PageEvents, {<<"7", "7", "a", "1", "b", "2">>},
                MaxActivity)
Spec == Init /\ [][Next]_vars

\* two platform facades with a configured gameId in one page, one observer
\* each; the host answers submissions
NextTwo == NextPage({1, 2}, {"plain"}, {TRUE},
                    {e \in PageEvents : e.type = "submit_result"},
                    {<<"7", "7", "a", "1", "b", "2">>}, MaxActivityTwo)
SpecTwo ==
  /\ InitPage({1, 2}, {c \in Configs : c.isPlatform /\ c.explicitGameId # Null}, {TRUE},
              {Storage(TRUE, <<"0", "e", "9", "f", "3", "c">>)})
  /\ [][NextTwo]_vars

\* two facades with a configured gameId over one storage, which starts empty,
\* holding an identifier, read-only or unavailable
NextIdentity ==
  \/ \E f \in {1, 2}, uuid \in UUIDs, playerName \in {Undefined, Some(<<"Ann">>)} :
       Submit(f, Score("number", 1500), playerName, TRUE, uuid, MaxActivityTwo)
  \/ \E f \in {1, 2}, uuid \in UUIDs : GetScores(f, Undefined, uuid, MaxActivityTwo)
  \/ \E f \in {1, 2}, resp \in {r \in ApiResponses : r.body = OkBody} :
       \E c \in calls[f] : ApiRespond(f, c, resp)
SpecIdentity ==
  /\ InitPage({1, 2}, {c \in Configs : c.explicitGameId # Null /\ c.sortPreference = Null},
              {TRUE},
              {Storage(TRUE, <<>>), Storage(TRUE, <<"0", "e", "9", "f", "3", "c">>),
               [Storage(TRUE, <<>>) EXCEPT !.writable = FALSE], Storage(FALSE, <<>>)})
  /\ [][NextIdentity]_vars

\* the fallback overlay of a game outside the platform: it is opened, its
\* tabs are clicked, and the responses arrive in any order
NextOverlay ==
  \/ \E uuid \in UUIDs : ShowFallbackUI(1, uuid, MaxActivityTwo)
  \/ \E tab \in {"weekly", "all_time"}, uuid \in UUIDs : SwitchTab(1, tab, uuid, MaxActivityTwo)
  \/ \E resp \in ApiResponses : \E c \in calls[1] : LoadScoresRespond(1, c, resp)
SpecOverlay ==
  /\ InitPage({1}, {createLeaderboardImpl(FALSE, "g1", Null)}, {TRUE}, {Storage(TRUE, <<>>)})
  /\ [][NextOverlay]_vars

\* one facade whose game keeps the closures of its registrations
NextObservers ==
  \/ \E h \in Handlers : OnSubmitTracked(1, h)
  \/ \E k \in 1..MaxClosures : CallUnsubscribe(1, k)
  \/ Destroy(1)
SpecObservers == Init /\ [][NextObservers]_vars
\* ------------------------------------------------------ StarAudio: session
\* the part of the page the audio runs leave alone
NoPage ==
  /\ bridge = [b \in Inst |-> NoBridge]
  /\ outbox = <<>>
  /\ facade = [f \in Inst |-> NoFacade]
  /\ calls = [f \in Inst |-> {}]
  /\ http = {}
  /\ localStorage = [available |-> TRUE, writable |-> TRUE, playerId |-> <<>>,
                     audio |-> Undefined]
  /\ returned = NoReturn

\* the 17 built-in presets, of which the model keeps one
Presets == {"coin"}
isPreset(value) == value \in Presets

\* _inferGroup(id): 'music' for IDs that start with "music." or "bgm."
inferGroup(id) == IF id \in {"music.a", "music.b"} THEN "music" ELSE "sfx"

\* one load and the Howl it constructs: the ID, how it was started ("file",
\* "procedural", "autoplay") and by whom, where it stands ("rendering",
\* "loading", "loaded", "failed", "rejected"), and the Howl's duration in
\* hundredths of a second and its loop flag; sounds.sounds maps an ID to the
\* index of its Howl in sounds.loads. The Howl's volume is the bus volume at
\* its construction (none is constructed while rendering). Kept as history: whether the load awaited
\* generateWavUrl, and whether it was started after destroy()
Howl(id, kind, via, stage, definition, requestedLoop) ==
  [id |-> id, kind |-> kind, via |-> via, stage |-> stage, definition |-> definition,
   duration |-> 0, loop |-> FALSE, requestedLoop |-> requestedLoop,
   volume |-> IF stage = "rendering" THEN 0 ELSE session.volumes[inferGroup(id)],
   rendered |-> stage = "rendering", afterDestroy |-> session.destroyCalled]

\* new StarAudioImpl(options) without initialMute and initialVolumes:
\* unlockWith !== false, suspendOnHidden ?? true, and whether Howler.ctx is
\* already running; the constructor starts by reading the stored preferences
\* and ends by starting the procedural load of every preset
StarAudioImpl(env, unlockWith, suspendOnHidden, ctxRunning) ==
  [env |-> env, created |-> "instance",
   state |-> IF ctxRunning THEN "running" ELSE "locked",
   unlockListeners |-> IF unlockWith THEN GestureTypes ELSE {},
   visibilityHandler |-> suspendOnHidden,
   destroyCalled |-> FALSE,
   readyResolved |-> ctxRunning,
   isMuted |-> loadState(localStorage).isMuted,
   volumes |-> loadState(localStorage).volumes,
   howlerVolume |-> IF loadState(localStorage).isMuted THEN 0 ELSE 100,
   saved |-> FALSE]
AutoPreload ==
  [NoSounds EXCEPT
     !.loads = <<Howl("coin", "procedural", "constructor", "rendering", "coin", FALSE)>>]

\* createStarAudio(opts)
CreateStarAudio(unlockWith, suspendOnHidden, ctxRunning) ==
  /\ session.created = "none"
  /\ IF session.env # "browser"
       THEN /\ session' = [session EXCEPT !.created = "threw"]
            /\ UNCHANGED sounds
       ELSE /\ session' = StarAudioImpl(session.env, unlockWith, suspendOnHidden, ctxRunning)
            /\ sounds' = AutoPreload
  /\ UNCHANGED <<emitted, music, pageVars>>

\* Star.audio of star-sdk: getAudio() creates the instance in a browser only
\* and returns _audio!, which is null elsewhere
getAudio ==
  /\ session.created = "none"
  /\ IF session.env = "server"
       THEN /\ session' = [session EXCEPT !.created = "null"]
            /\ UNCHANGED sounds
       ELSE IF session.env # "browser"
       THEN /\ session' = [session EXCEPT !.created = "threw"]
            /\ UNCHANGED sounds
       ELSE /\ session' = StarAudioImpl(session.env, TRUE, TRUE, FALSE)
            /\ sounds' = AutoPreload
  /\ UNCHANGED <<emitted, music, pageVars>>

\* the Howls of _sounds.values()
Registered == {sounds.sounds[id] : id \in DOMAIN sounds.sounds}

\* pause(): howl.pause() on every registered Howl, then the state
pause ==
  /\ music' = [music EXCEPT !.playbacks =
       [p \in DOMAIN @ |->
          IF @[p].howl \in Registered /\ @[p].status = "playing"
            THEN [@[p] EXCEPT !.status = "paused"] ELSE @[p]]]
  /\ session' = [session EXCEPT !.state = "suspended"]
  /\ emitted' = Append(emitted, "suspended")
  /\ UNCHANGED sounds

\* resume(), alias unlock()
resume ==
  /\ music' =
       IF music.currentMusicId # Null /\ music.currentMusicSoundId # NoId
            /\ MapHas(sounds.sounds, music.currentMusicId)
            /\ music.playbacks[music.currentMusicSoundId].howl
                 = sounds.sounds[music.currentMusicId]
            /\ music.playbacks[music.currentMusicSoundId].status # "playing"
         THEN [music EXCEPT !.playbacks[music.currentMusicSoundId].status = "playing"]
         ELSE music
  /\ session' = [session EXCEPT !.state = "running", !.readyResolved = TRUE]
  /\ emitted' = Append(emitted, "resumed")
  /\ UNCHANGED sounds

\* the game calls audio.pause()
PauseAudio ==
  /\ session.created = "instance"
  /\ Len(emitted) < MaxEmitted
  /\ pause
  /\ UNCHANGED pageVars

\* the game calls audio.resume() or audio.unlock()
ResumeAudio ==
  /\ session.created = "instance"
  /\ Len(emitted) < MaxEmitted
  /\ resume
  /\ UNCHANGED pageVars

\* the document's visibilitychange event, with its new visibilityState
VisibilityChange(visibilityState) ==
  /\ session.created = "instance"
  /\ session.visibilityHandler
  /\ Len(emitted) < MaxEmitted
  /\ IF visibilityState = "hidden" THEN pause ELSE resume
  /\ UNCHANGED pageVars

\* attachUnlock(target)
AttachUnlock ==
  /\ session.created = "instance"
  /\ session' = [session EXCEPT !.unlockListeners = GestureTypes]
  /\ UNCHANGED <<emitted, sounds, music, pageVars>>

\* an event of one of the four types reaches the unlock target: the handler,
\* registered once per event type, runs _unlock()
Gesture(eventType) ==
  /\ session.created = "instance"
  /\ eventType \in session.unlockListeners
  /\ IF session.state = "running"
       THEN /\ session' = [session EXCEPT !.unlockListeners = @ \ {eventType}]
            /\ UNCHANGED emitted
       ELSE /\ Len(emitted) < MaxEmitted
            /\ session' = [session EXCEPT !.unlockListeners = @ \ {eventType},
                                          !.state = "running", !.readyResolved = TRUE]
            /\ emitted' = Append(emitted, "unlocked")
  /\ UNCHANGED <<sounds, music, pageVars>>

clearFadeTimeout(timers, t) ==
  [k \in DOMAIN timers |-> IF k = t /\ timers[k].status = "armed"
                             THEN [timers[k] EXCEPT !.status = "cleared"] ELSE timers[k]]

\* destroy(); howl.unload() stops the sounds of every registered Howl
DestroyAudio ==
  /\ session.created = "instance"
  /\ session' = [session EXCEPT !.unlockListeners = {}, !.visibilityHandler = FALSE,
                                !.destroyCalled = TRUE]
  /\ music' = [music EXCEPT !.timers = clearFadeTimeout(@, music.pendingFadeTimeout),
                            !.pendingFadeTimeout = NoId,
                            !.playbacks =
                              [p \in DOMAIN @ |->
                                 IF @[p].howl \in Registered
                                   THEN [@[p] EXCEPT !.status = "stopped"] ELSE @[p]]]
  /\ sounds' = [sounds EXCEPT !.sounds = EmptyMap, !.generatedWavUrls = {}]
  /\ UNCHANGED <<emitted, pageVars>>

\* a page or a server process in which no audio instance exists yet
InitSession ==
  /\ NoPage
  /\ \E env \in {"server", "noAudioContext", "browser"} : session = NoSession(env)
  /\ emitted = <<>>
  /\ sounds = NoSounds
  /\ music = NoMusic
NextSession ==
  \/ \E unlockWith \in BOOLEAN, suspendOnHidden \in BOOLEAN, ctxRunning \in BOOLEAN :
       CreateStarAudio(unlockWith, suspendOnHidden, ctxRunning)
  \/ getAudio
  \/ PauseAudio
  \/ ResumeAudio
  \/ \E visibilityState \in {"hidden", "visible"} : VisibilityChange(visibilityState)
  \/ AttachUnlock
  \/ \E eventType \in GestureTypes : Gesture(eventType)
  \/ DestroyAudio
SpecSession == InitSession /\ [][NextSession]_vars

\* ----------------------------------------------------- session properties
\* C23: calling an SDK factory outside a browser never throws; here, the part
\* about createStarAudio: whatever the environment, the call returns.
C23_FactoryNeverThrows == session.created # "threw"

\* C24: the session state starts locked (or running when the audio context is
\* already active) and changes only along locked -> running, running ->
\* suspended, suspended -> running; after destroy() nothing changes it.
SessionTransitions ==
  {<<"locked", "running">>, <<"running", "suspended">>, <<"suspended", "running">>}
C24_StateMachine ==
  [][ /\ (session.created = "none" /\ session'.created = "instance")
           => session'.state \in {"locked", "running"}
      /\ (session.created = "instance" /\ session'.state # session.state)
           => /\ <<session.state, session'.state>> \in SessionTransitions
              /\ ~session.destroyCalled
    ]_vars

\* C25: the unlock happens once per session: after the gesture that emitted
\* 'unlocked', a gesture of any of the four types changes neither the state
\* nor the emitted events, also when pause() was called in between.
C25_UnlockOnce ==
  [][ \A eventType \in GestureTypes :
        (Gesture(eventType) /\ (\E i \in DOMAIN emitted : emitted[i] = "unlocked"))
          => (session'.state = session.state /\ emitted' = emitted)
    ]_vars

\* ------------------------------------------------------- StarAudio: assets
\* howl.duration() is in hundredths of a second; the loops of play and
\* crossfadeTo need more than 0.1 s
MinLoopDuration == 10
safeToLoop(loop, audioDuration) == loop /\ audioDuration > MinLoopDuration

\* a manifest value is a file URL ("zap.mp3"), a string that is neither a URL
\* nor a preset ("con"), a preset name, or a SynthDefinition object ("custom")
\* load({id, src, group}) up to the Howl's construction
load(reg, id, group, via) ==
  [reg EXCEPT !.soundGroups = MapSet(@, id, IF group # Undefined THEN group[1]
                                                                  ELSE inferGroup(id)),
              !.loads = Append(@, [Howl(id, "file", via, "loading", Null, FALSE) EXCEPT
                                     !.volume = session.volumes[IF group # Undefined
                                                                  THEN group[1]
                                                                  ELSE inferGroup(id)]])]

\* _loadProceduralSound(id, value) up to its first await, or, when the WAV of
\* the definition is cached, up to the Howl's construction
loadProceduralSound(reg, id, value, via) ==
  IF value \in reg.generatedWavUrls
    THEN [reg EXCEPT !.soundGroups = MapSet(@, id, inferGroup(id)),
                     !.loads = Append(@, Howl(id, "procedural", via, "loading", value, FALSE))]
    ELSE [reg EXCEPT !.loads = Append(@, Howl(id, "procedural", via, "rendering", value, FALSE))]

\* the loop of preload(manifest) over the manifest's entries
RECURSIVE preloadFrom(_, _, _)
preloadFrom(reg, manifest, i) ==
  IF i > Len(manifest) THEN reg
  ELSE LET id == manifest[i][1]
           value == manifest[i][2]
       IN IF isPreset(value) \/ value = "custom"
            THEN preloadFrom(loadProceduralSound(reg, id, value, "preload"), manifest, i + 1)
          ELSE IF value = "con"
            THEN preloadFrom(reg, manifest, i + 1)
          ELSE preloadFrom(load(reg, id, Undefined, "preload"), manifest, i + 1)

\* audio.load({id, src, group})
Load(id, group) ==
  /\ session.created = "instance"
  /\ Len(sounds.loads) < MaxLoads
  /\ sounds' = load(sounds, id, group, "load")
  /\ UNCHANGED <<session, emitted, music, pageVars>>

\* audio.preload(manifest) up to `await Promise.allSettled(promises)`;
\* sounds.preloads keeps the loads each call waits for
Preload(manifest) ==
  /\ session.created = "instance"
  /\ Len(sounds.preloads) < MaxPreloads
  /\ Len(preloadFrom(sounds, manifest, 1).loads) <= MaxLoads
  /\ sounds' = [preloadFrom(sounds, manifest, 1) EXCEPT
                  !.preloads = Append(@, [promises |-> (Len(sounds.loads) + 1)
                                                        ..Len(preloadFrom(sounds, manifest, 1).loads),
                                          resolved |-> FALSE])]
  /\ UNCHANGED <<session, emitted, music, pageVars>>

\* preload awaiting Promise.all: a rejected load rejects the whole call
PreloadResolve_all(p) ==
  /\ p \in DOMAIN sounds.preloads
  /\ ~sounds.preloads[p].resolved
  /\ \A k \in sounds.preloads[p].promises : sounds.loads[k].stage \in {"loaded", "failed"}
  /\ sounds' = [sounds EXCEPT !.preloads[p].resolved = TRUE]
  /\ UNCHANGED <<session, emitted, music, pageVars>>

\* Promise.allSettled settles once each of its promises did, fulfilled or
\* rejected, and preload logs its summary and resolves
PreloadResolve(p) ==
  /\ p \in DOMAIN sounds.preloads
  /\ ~sounds.preloads[p].resolved
  /\ \A k \in sounds.preloads[p].promises :
       sounds.loads[k].stage \in {"loaded", "failed", "rejected"}
  /\ sounds' = [sounds EXCEPT !.preloads[p].resolved = TRUE]
  /\ UNCHANGED <<session, emitted, music, pageVars>>

\* generateWavUrl(definition) resolved: the rest of _loadProceduralSound runs
RenderResolved(k) ==
  /\ k \in DOMAIN sounds.loads
  /\ sounds.loads[k].stage = "rendering"
  /\ sounds' = [sounds EXCEPT !.generatedWavUrls = @ \cup {sounds.loads[k].definition},
                              !.soundGroups = MapSet(@, sounds.loads[k].id,
                                                     inferGroup(sounds.loads[k].id)),
                              !.loads[k].stage = "loading",
                              !.loads[k].volume =
                                session.volumes[inferGroup(sounds.loads[k].id)]]
  /\ UNCHANGED <<session, emitted, music, pageVars>>

\* generateWavUrl(definition) threw or rejected (no OfflineAudioContext, a
\* ramp to a negative time, zero samples): _loadProceduralSound rejects, and
\* its callers catch or settle
RenderRejected(k) ==
  /\ k \in DOMAIN sounds.loads
  /\ sounds.loads[k].stage = "rendering"
  /\ sounds' = [sounds EXCEPT !.loads[k].stage = "rejected"]
  /\ UNCHANGED <<session, emitted, music, pageVars>>

\* howl.play(): a new sound of Howl k
howlPlay(m, k, byMusic) ==
  [m EXCEPT !.playbacks = Append(@, [howl |-> k, status |-> "playing", music |-> byMusic])]

\* an onload that leaves the Howl out of _sounds
HowlLoad_unregistered(k, duration) ==
  /\ k \in DOMAIN sounds.loads
  /\ sounds.loads[k].stage = "loading"
  /\ sounds' = [sounds EXCEPT !.loads[k].stage = "loaded", !.loads[k].duration = duration]
  /\ UNCHANGED <<session, emitted, music, pageVars>>

\* onload of the Howl of load k; an auto-loading Howl sets its loop flag here
\* and, having autoplay, starts to play
HowlLoad(k, duration) ==
  /\ k \in DOMAIN sounds.loads
  /\ sounds.loads[k].stage = "loading"
  /\ LET h == sounds.loads[k] IN
       /\ sounds' = [sounds EXCEPT
                       !.sounds = MapSet(@, h.id, k),
                       !.loads[k] = [h EXCEPT !.stage = "loaded", !.duration = duration,
                                              !.loop = /\ h.kind = "autoplay"
                                                       /\ h.requestedLoop
                                                       /\ duration > MinLoopDuration]]
       /\ IF h.kind = "autoplay"
            THEN /\ Len(music.playbacks) < MaxPlays
                 /\ music' = howlPlay(music, k, FALSE)
            ELSE UNCHANGED music
  /\ UNCHANGED <<session, emitted, pageVars>>

\* onloaderror of the Howl of load k
HowlLoadError(k) ==
  /\ k \in DOMAIN sounds.loads
  /\ sounds.loads[k].stage = "loading"
  /\ emitted' = Append(emitted, "error")
  /\ sounds' = [sounds EXCEPT !.soundGroups = MapDelete(@, sounds.loads[k].id),
                              !.loads[k].stage = "failed"]
  /\ UNCHANGED <<session, music, pageVars>>

\* audio.play(id, {loop, src}); music.handle is the sound id of the handle it
\* returned, NoId for null. A sound that is loaded plays at its bus volume
\* (no per-sound volume is given in the model's manifests)
Play(id, loop, src) ==
  /\ session.created = "instance"
  /\ IF isPreset(id) /\ ~MapHas(sounds.sounds, id) THEN
       /\ Len(sounds.loads) < MaxLoads
       /\ sounds' = loadProceduralSound(sounds, id, id, "play")
       /\ music' = [music EXCEPT !.handle = NoId]
     ELSE IF src /\ ~MapHas(sounds.sounds, id) THEN
       /\ Len(sounds.loads) < MaxLoads
       /\ sounds' = [sounds EXCEPT
                       !.soundGroups = MapSet(@, id, inferGroup(id)),
                       !.loads = Append(@, Howl(id, "autoplay", "play", "loading", Null,
                                                IF loop = Undefined THEN FALSE ELSE loop[1]))]
       /\ music' = [music EXCEPT !.handle = NoId]
     ELSE IF ~MapHas(sounds.sounds, id) THEN
       /\ music' = [music EXCEPT !.handle = NoId]
       /\ UNCHANGED sounds
     ELSE
       /\ Len(music.playbacks) < MaxPlays
       /\ LET k == sounds.sounds[id]
              group == IF MapHas(sounds.soundGroups, id) THEN sounds.soundGroups[id]
                                                         ELSE "sfx"
          IN
            /\ sounds' = [sounds EXCEPT
                            !.loads[k].volume = session.volumes[group],
                            !.loads[k].loop = IF loop # Undefined
                                                THEN safeToLoop(loop[1], sounds.loads[k].duration)
                                                ELSE @]
            /\ music' = [howlPlay(music, k, FALSE) EXCEPT !.handle = Len(music.playbacks) + 1]
  /\ UNCHANGED <<session, emitted, pageVars>>

\* -------------------------------------------------------- StarAudio: music
\* a timer of music.timers is a setTimeout call of the music interface: its
\* callback stops sound soundId of Howl howl, and the one of music.stop
\* (kind "stop") clears the pointer as well
\* this._currentMusicId && this._currentMusicSoundId !== null, and the Howl
\* of the current track is in _sounds
hasCurrentMusic ==
  /\ music.currentMusicId # Null
  /\ music.currentMusicSoundId # NoId
  /\ MapHas(sounds.sounds, music.currentMusicId)

\* music.crossfadeTo(id, {loop}), aliases fadeTo, switchTo, musicFadeTo
CrossfadeTo(id, loopOption) ==
  /\ session.created = "instance"
  /\ MapHas(sounds.sounds, id)
  /\ LET loop == IF loopOption = Undefined THEN TRUE ELSE loopOption[1]
         k == sounds.sounds[id]
     IN IF music.currentMusicId = id /\ music.currentMusicSoundId # NoId THEN
          /\ sounds' = [sounds EXCEPT !.loads[k].loop = loop]
          /\ music' = [music EXCEPT !.lastCall = [op |-> "crossfadeTo", id |-> id]]
        ELSE
          /\ Len(music.playbacks) < MaxPlays
          /\ hasCurrentMusic => Len(music.timers) < MaxTimers
          /\ LET cleared == clearFadeTimeout(music.timers, music.pendingFadeTimeout)
                 timers == IF hasCurrentMusic
                             THEN Append(cleared,
                                         [howl |-> sounds.sounds[music.currentMusicId],
                                          soundId |-> music.currentMusicSoundId,
                                          kind |-> "crossfade", status |-> "armed"])
                             ELSE cleared
             IN music' = [howlPlay(music, k, TRUE) EXCEPT
                            !.timers = timers,
                            !.pendingFadeTimeout = IF hasCurrentMusic THEN Len(timers) ELSE NoId,
                            !.currentMusicId = id,
                            !.currentMusicSoundId = Len(music.playbacks) + 1,
                            !.lastCall = [op |-> "crossfadeTo", id |-> id]]
          /\ sounds' = [sounds EXCEPT !.loads[k].loop =
                          safeToLoop(loop, sounds.loads[k].duration)]
  /\ UNCHANGED <<session, emitted, pageVars>>

\* music.stop(fadeSec)
MusicStop ==
  /\ session.created = "instance"
  /\ hasCurrentMusic => Len(music.timers) < MaxTimers
  /\ LET cleared == clearFadeTimeout(music.timers, music.pendingFadeTimeout)
         timers == IF hasCurrentMusic
                     THEN Append(cleared,
                                 [howl |-> sounds.sounds[music.currentMusicId],
                                  soundId |-> music.currentMusicSoundId,
                                  kind |-> "stop", status |-> "armed"])
                     ELSE cleared
     IN music' = [music EXCEPT
                    !.timers = timers,
                    !.pendingFadeTimeout = IF hasCurrentMusic THEN Len(timers) ELSE NoId,
                    !.lastCall = [op |-> "stop", id |-> Null]]
  /\ UNCHANGED <<session, emitted, sounds, pageVars>>

\* the callback of fade timer t runs; howl.stop(soundId) stops the sound if
\* it is one of that Howl's
FadeTimerFire(t) ==
  /\ t \in DOMAIN music.timers
  /\ music.timers[t].status = "armed"
  /\ LET timer == music.timers[t] IN
       music' = [music EXCEPT
                   !.timers[t].status = "fired",
                   !.playbacks =
                     [p \in DOMAIN @ |->
                        IF p = timer.soundId /\ @[p].howl = timer.howl
                          THEN [@[p] EXCEPT !.status = "stopped"] ELSE @[p]],
                   !.currentMusicId = IF timer.kind = "stop" THEN Null ELSE @,
                   !.currentMusicSoundId = IF timer.kind = "stop" THEN NoId ELSE @,
                   !.pendingFadeTimeout = NoId]
  /\ UNCHANGED <<session, emitted, sounds, pageVars>>

\* a sound whose Howl does not loop reaches its end
PlaybackEnds(p) ==
  /\ p \in DOMAIN music.playbacks
  /\ music.playbacks[p].status = "playing"
  /\ ~sounds.loads[music.playbacks[p].howl].loop
  /\ music' = [music EXCEPT !.playbacks[p].status = "ended"]
  /\ UNCHANGED <<session, emitted, sounds, pageVars>>

\* a browser page whose game has just called createStarAudio()
InitAudio ==
  /\ NoPage
  /\ session = StarAudioImpl("browser", TRUE, TRUE, FALSE)
  /\ emitted = <<>>
  /\ sounds = AutoPreload
  /\ music = NoMusic

\* loading, by every way a load can start, and the teardown; the manifests
\* have one or two entries
NextAssets ==
  \/ \E group \in {Undefined, Some("music")} : Load("sfx.zap", group)
  \/ \E manifest \in { <<<<"sfx.zap", "zap.mp3">>>>,
                         <<<<"sfx.zap", "custom">>, <<"music.a", "zap.mp3">>>>,
                         <<<<"sfx.zap", "con">>, <<"coin", "coin">>>> } :
       Preload(manifest)
  \/ \E k \in 1..MaxLoads : RenderResolved(k)
  \/ \E k \in 1..MaxLoads : RenderRejected(k)
  \/ \E k \in 1..MaxLoads : HowlLoad(k, 200)
  \/ \E k \in 1..MaxLoads : HowlLoadError(k)
  \/ \E id \in {"sfx.zap", "coin"}, src \in BOOLEAN : Play(id, Undefined, src)
  \/ DestroyAudio
SpecAssets == InitAudio /\ [][NextAssets]_vars

\* preload calls alone, over the constructor's preset load; a preload whose
\* promises have all settled does resume
NextPreload ==
  \/ \E manifest \in { <<<<"sfx.zap", "zap.mp3">>>>,
                         <<<<"sfx.zap", "custom">>, <<"music.a", "zap.mp3">>>>,
                         <<<<"sfx.zap", "con">>, <<"coin", "coin">>>> } :
       Preload(manifest)
  \/ \E k \in 1..MaxLoads : RenderResolved(k)
  \/ \E k \in 1..MaxLoads : RenderRejected(k)
  \/ \E k \in 1..MaxLoads : HowlLoad(k, 200)
  \/ \E k \in 1..MaxLoads : HowlLoadError(k)
  \/ \E p \in 1..MaxPreloads : PreloadResolve(p)
SpecPreload ==
  InitAudio /\ [][NextPreload]_vars /\ \A p \in 1..MaxPreloads : WF_vars(PreloadResolve(p))

\* ---------------------------------------------------------- ProceduralSynth
\* the preset table: duration in milliseconds, volume in hundredths
PRESET_DEFINITIONS ==
  [beep      |-> [duration |-> Some(100),  volume |-> Some(38), envelope |-> Some("percussive")],
   coin      |-> [duration |-> Some(160),  volume |-> Some(42), envelope |-> Some("percussive")],
   pickup    |-> [duration |-> Some(130),  volume |-> Some(40), envelope |-> Some("percussive")],
   jump      |-> [duration |-> Some(150),  volume |-> Some(70), envelope |-> Some("percussive")],
   hurt      |-> [duration |-> Some(250),  volume |-> Some(28), envelope |-> Some("percussive")],
   explosion |-> [duration |-> Some(650),  volume |-> Some(45), envelope |-> Some("percussive")],
   powerup   |-> [duration |-> Some(480),  volume |-> Some(44), envelope |-> Some("sustained")],
   shoot     |-> [duration |-> Some(100),  volume |-> Some(45), envelope |-> Some("percussive")],
   laser     |-> [duration |-> Some(180),  volume |-> Some(42), envelope |-> Some("percussive")],
   error     |-> [duration |-> Some(220),  volume |-> Some(32), envelope |-> Some("percussive")],
   click     |-> [duration |-> Some(50),   volume |-> Some(70), envelope |-> Some("percussive")],
   success   |-> [duration |-> Some(1200), volume |-> Some(48), envelope |-> Some("sustained")],
   bonus     |-> [duration |-> Some(420),  volume |-> Some(50), envelope |-> Some("sustained")],
   select    |-> [duration |-> Some(60),   volume |-> Some(35), envelope |-> Some("percussive")],
   unlock    |-> [duration |-> Some(350),  volume |-> Some(46), envelope |-> Some("sustained")],
   swoosh    |-> [duration |-> Some(150),  volume |-> Some(36), envelope |-> Some("percussive")],
   hit       |-> [duration |-> Some(60),   volume |-> Some(56), envelope |-> Some("percussive")]]

\* generateWavUrl(definition) up to startRendering: the defaults, the length
\* of the buffer and the four events it schedules on the gain, in order of
\* the calls. Times are in milliseconds and gains in units of 0.00001
\* (PROCEDURAL_VOLUME_SCALE is 0.03). linearRampToValueAtTime throws a
\* RangeError for a negative time
generateWavUrl(definition) ==
  LET duration == IF definition.duration = Undefined THEN 100 ELSE definition.duration[1]
      presetVolume == IF definition.volume = Undefined THEN 100 ELSE definition.volume[1]
      envelope == IF definition.envelope = Undefined THEN "percussive"
                                                      ELSE definition.envelope[1]
      scaledVolume == presetVolume * 30
      attackTime == IF envelope = "percussive" THEN 10 ELSE 50
      releaseTime == IF envelope = "percussive" THEN 50 ELSE 100
  IN [numSamples |-> 48 * duration,
      duration |-> duration,
      gain |-> << [time |-> 0, value |-> 0],
                  [time |-> attackTime, value |-> scaledVolume],
                  [time |-> duration - releaseTime, value |-> (scaledVolume * 7) \div 10],
                  [time |-> duration, value |-> 0] >>,
      threw |-> duration - releaseTime < 0]

\* a preset name resolved by resolveDefinition, or a custom definition with a
\* positive duration or none, is about to be rendered
InitSynth ==
  /\ bridge = [b \in Inst |-> NoBridge]
  /\ outbox = <<>>
  /\ facade = [f \in Inst |-> NoFacade]
  /\ calls = [f \in Inst |-> {}]
  /\ http = {}
  /\ localStorage = Storage(TRUE, <<>>)
  /\ NoAudio
  /\ \/ \E preset \in DOMAIN PRESET_DEFINITIONS :
          returned = [value |-> preset, definition |-> PRESET_DEFINITIONS[preset],
                      rendered |-> Undefined]
     \/ \E duration \in {Undefined, Some(1), Some(30), Some(50), Some(60), Some(120),
                          Some(2000)},
           volume \in {Undefined, Some(50), Some(100)},
           envelope \in {Undefined, Some("percussive"), Some("sustained")} :
          returned = [value |-> "custom",
                      definition |-> [duration |-> duration, volume |-> volume,
                                      envelope |-> envelope],
                      rendered |-> Undefined]
NextSynth ==
  /\ returned.rendered = Undefined
  /\ returned' = [returned EXCEPT !.rendered = Some(generateWavUrl(returned.definition))]
  /\ UNCHANGED <<bridge, outbox, facade, calls, http, localStorage, audioVars>>
SpecSynth == InitSynth /\ [][NextSynth]_vars

\* ------------------------------------------------ StarAudio: volume and mute
\* setMusicVolume(v) and setSfxVolume(v), which differ in the bus alone: the
\* Howls of _sounds whose ID is tagged with the bus take the clamped volume
setBusVolume(group, v) ==
  /\ session.created = "instance"
  /\ session' = [session EXCEPT !.volumes[group] = clamp(v), !.saved = TRUE]
  /\ sounds' = [sounds EXCEPT !.loads =
                  [k \in DOMAIN @ |->
                     IF \E id \in DOMAIN sounds.sounds :
                          /\ sounds.sounds[id] = k
                          /\ MapHas(sounds.soundGroups, id)
                          /\ sounds.soundGroups[id] = group
                       THEN [@[k] EXCEPT !.volume = clamp(v)]
                       ELSE @[k]]]
  /\ localStorage' = saveState(localStorage, session.isMuted, session'.volumes)
  /\ UNCHANGED <<emitted, music, bridge, outbox, facade, calls, http, returned>>

\* setMute(muted), alias mute
setMute(muted) ==
  /\ session.created = "instance"
  /\ session' = [session EXCEPT !.isMuted = muted,
                                !.howlerVolume = IF muted THEN 0 ELSE 100,
                                !.saved = TRUE]
  /\ localStorage' = saveState(localStorage, muted, session.volumes)
  /\ UNCHANGED <<emitted, sounds, music, bridge, outbox, facade, calls, http, returned>>

\* toggleMute()
toggleMute == setMute(~session.isMuted)

\* the page is loaded again and the game calls
\* createStarAudio({initialMute, initialVolumes}) with the same persistKey
Reconstruct(initialMute, initialVolumes) ==
  /\ session.created = "instance"
  /\ LET impl == StarAudioImpl("browser", TRUE, TRUE, FALSE)
         isMuted == IF initialMute # Undefined THEN initialMute[1] ELSE impl.isMuted
     IN session' = [impl EXCEPT
                      !.isMuted = isMuted,
                      !.volumes = [g \in {"music", "sfx"} |->
                                     IF initialVolumes # Undefined /\ initialVolumes[1][g] # Undefined
                                       THEN clamp(initialVolumes[1][g][1])
                                       ELSE impl.volumes[g]],
                      !.howlerVolume = IF isMuted THEN 0 ELSE 100]
  /\ sounds' = AutoPreload
  /\ emitted' = <<>>
  /\ music' = NoMusic
  /\ UNCHANGED pageVars

\* the game sets volumes and mute, with arguments in and out of range, while
\* a music track and the constructor's preset load, and the page is loaded
\* again, with and without initial options
NextMixer ==
  \/ \E group \in {"music", "sfx"}, v \in {-50, 40, 150, NaN} : setBusVolume(group, v)
  \/ \E muted \in BOOLEAN : setMute(muted)
  \/ toggleMute
  \/ \E initialMute \in {Undefined, Some(TRUE)},
        initialVolumes \in {Undefined,
                            Some([music |-> Some(NaN), sfx |-> Undefined]),
                            Some([music |-> Some(150), sfx |-> Some(-50)])} :
       Reconstruct(initialMute, initialVolumes)
  \/ Load("music.a", Undefined)
  \/ \E k \in 1..MaxLoads : RenderResolved(k)
  \/ \E k \in 1..MaxLoads : HowlLoad(k, 200)
SpecMixer == InitAudio /\ [][NextMixer]_vars

\* a session nobody preloads into or tears down, whose renders and loads
\* succeed: the game loads and plays a file and plays the preset, and each
\* pending render and load does complete
NextPresets ==
  \/ Load("sfx.zap", Undefined)
  \/ \E k \in 1..MaxLoads : RenderResolved(k)
  \/ \E k \in 1..MaxLoads : HowlLoad(k, 200)
  \/ \E id \in {"sfx.zap", "coin"}, src \in BOOLEAN : Play(id, Undefined, src)
SpecPresets ==
  /\ InitAudio /\ [][NextPresets]_vars
  /\ \A k \in 1..MaxLoads : WF_vars(RenderResolved(k)) /\ WF_vars(HowlLoad(k, 200))

\* music: two tracks and a sound effect, loaded from files or by play
NextMusic ==
  \/ \E id \in {"music.a", "music.b"} : Load(id, Undefined)
  \/ \E k \in 1..MaxLoads, duration \in {5, 200} : HowlLoad(k, duration)
  \/ \E loop \in {Undefined, Some(TRUE)}, src \in BOOLEAN : Play("music.b", loop, src)
  \/ \E id \in {"music.a", "music.b"}, loopOption \in {Undefined, Some(FALSE)} :
       CrossfadeTo(id, loopOption)
  \/ MusicStop
  \/ \E t \in 1..MaxTimers : FadeTimerFire(t)
  \/ \E p \in 1..MaxPlays : PlaybackEnds(p)
SpecMusic == InitAudio /\ [][NextMusic]_vars

\* ------------------------------------------------------- audio properties
ArmedTimers == {t \in DOMAIN music.timers : music.timers[t].status = "armed"}
ErrorsEmitted == Cardinality({i \in DOMAIN emitted : emitted[i] = "error"})
FailedLoads ==
  {k \in DOMAIN sounds.loads : sounds.loads[k].stage \in {"failed", "rejected"}}

\* C26: when the last music call was crossfadeTo(B) on a loaded track B, B is
\* the current track, and no timer that fires stops B's playback or clears
\* the pointer; never are two fade timers armed at once.
C26_LastCrossfadeWins ==
  [][ /\ Cardinality(ArmedTimers') <= 1
      /\ music'.lastCall.op = "crossfadeTo"
           => /\ music'.currentMusicId = music'.lastCall.id
              /\ \A t \in DOMAIN music.timers :
                   (FadeTimerFire(t) /\ music.currentMusicSoundId # NoId)
                     => music'.playbacks[music.currentMusicSoundId].status
                          = music.playbacks[music.currentMusicSoundId].status
    ]_vars

\* C27: once every fade timer has fired, the only music playback still
\* playing is the one of the current track: each replaced one was stopped
\* (said of the playbacks of the Howls the registry holds, which leaves aside
\* the tracks that were loaded anew while they played).
C27_ReplacedIsStopped ==
  ArmedTimers = {}
    => \A p \in DOMAIN music.playbacks :
         (/\ music.playbacks[p].music
          /\ music.playbacks[p].howl \in Registered
          /\ music.playbacks[p].status = "playing")
           => p = music.currentMusicSoundId

\* C28: a loaded sound of at most 0.1 s never has its loop flag set.
C28_ShortNeverLoops ==
  \A id \in DOMAIN sounds.sounds :
    sounds.loads[sounds.sounds[id]].duration <= MinLoopDuration
      => ~sounds.loads[sounds.sounds[id]].loop

\* C29: a failed load leaves the registry as it was; in particular every ID
\* of the registry has a group tag.
C29_RegistryTagged ==
  \A id \in DOMAIN sounds.sounds : MapHas(sounds.soundGroups, id)

\* C30: a load that failed, in rendering or in loading, resolved and emitted
\* an 'error' event.
C30_FailureEmitsError ==
  /\ \A k \in FailedLoads : sounds.loads[k].stage # "rejected"
  /\ ErrorsEmitted >= Cardinality(FailedLoads)

\* a load that has settled, and a preload call all of whose loads have
Settled(k) == sounds.loads[k].stage \in {"loaded", "failed", "rejected"}
AllSettled(p) ==
  p \in DOMAIN sounds.preloads /\ \A k \in sounds.preloads[p].promises : Settled(k)

\* C31: preload resolves once each of its loads has settled, whichever of
\* them failed; when it resolves, every one of its loads that succeeded is in
\* the registry; and a load in flight can complete whatever happened to the
\* others.
C31_PreloadSettles ==
  /\ [][ \A p \in 1..MaxPreloads :
           PreloadResolve(p)
             => /\ AllSettled(p)
                /\ \A k \in sounds.preloads[p].promises :
                     sounds.loads[k].stage = "loaded"
                       => MapHas(sounds.sounds, sounds.loads[k].id)
       ]_vars
  /\ [](\A k \in DOMAIN sounds.loads :
          sounds.loads[k].stage = "loading" => ENABLED HowlLoad(k, 200))
  /\ \A p \in 1..MaxPreloads :
       AllSettled(p) ~> (p \in DOMAIN sounds.preloads /\ sounds.preloads[p].resolved)

\* a preload resolved of whose two loads one was rejected in rendering and the
\* other loaded
C31_Witness ==
  \E p \in DOMAIN sounds.preloads :
    /\ sounds.preloads[p].resolved
    /\ \E k1, k2 \in sounds.preloads[p].promises :
         /\ sounds.loads[k1].stage = "rejected"
         /\ sounds.loads[k2].stage = "loaded"
         /\ MapHas(sounds.sounds, sounds.loads[k2].id)

\* C32: the procedural loads of one definition, one after another or
\* overlapping, render it at most once: no two loads of the same definition
\* both awaited generateWavUrl.
C32_RenderedOnce ==
  \A k1, k2 \in DOMAIN sounds.loads :
    (/\ sounds.loads[k1].rendered /\ sounds.loads[k2].rendered
     /\ sounds.loads[k1].definition = sounds.loads[k2].definition)
      => k1 = k2

\* C33: after destroy(), whatever was in flight when it was called, the
\* registry holds no sound of a load started before it, no fade timer is
\* armed, and the unlock and visibility listeners are removed.
C33_TornDown ==
  session.destroyCalled
    => /\ \A id \in DOMAIN sounds.sounds : sounds.loads[sounds.sounds[id]].afterDestroy
       /\ ArmedTimers = {}
       /\ session.unlockListeners = {} /\ ~session.visibilityHandler

C35_RoundTrip ==
  /\ [](session.saved =>
          localStorage.audio = Some([mute |-> session.isMuted, volumes |-> session.volumes]))
  /\ [][/\ (session.saved /\ Reconstruct(Undefined, Undefined)) =>
            (session'.isMuted = session.isMuted /\ session'.volumes = session.volumes)
        /\ toggleMute => (session'.isMuted = ~session.isMuted)]_vars

\* the IDs of _sounds that _soundGroups tags with a bus
InBus(group) ==
  {id \in DOMAIN sounds.sounds :
     MapHas(sounds.soundGroups, id) /\ sounds.soundGroups[id] = group}
\* C36: setMusicVolume(v) / setSfxVolume(v) with a number v sets the bus
\* volume to v clamped to [0, 1], gives that volume to every registered sound
\* of the bus and leaves the other sounds' volumes alone; and a sound whose
\* load completes, in flight or not when the bus volume was set, carries the
\* volume of its bus
C36_BusVolume ==
  /\ [][\A group \in {"music", "sfx"}, v \in {-50, 40, 150} :
          setBusVolume(group, v) =>
            /\ session'.volumes[group] = IF v < 0 THEN 0 ELSE IF v > 100 THEN 100 ELSE v
            /\ \A id \in InBus(group) :
                 sounds'.loads[sounds.sounds[id]].volume = session'.volumes[group]
            /\ \A k \in DOMAIN sounds.loads :
                 (\A id \in InBus(group) : sounds.sounds[id] # k) =>
                   sounds'.loads[k].volume = sounds.loads[k].volume]_vars
  /\ [][\A k \in DOMAIN sounds.loads :
          (HowlLoad(k, 200) /\ MapHas(sounds.soundGroups, sounds.loads[k].id)) =>
            sounds'.loads[k].volume = session.volumes[sounds.soundGroups[sounds.loads[k].id]]]_vars

\* C39: both bus volumes of a session are numbers within [0, 1]
C39_VolumesInRange ==
  session.created = "instance" =>
    \A g \in {"music", "sfx"} : session.volumes[g] \in 0..100

\* C37: for each preset and each custom definition the synthesizer renders,
\* the ramps are scheduled at times that are not negative and in order,
\* 0 < attackTime <= duration - releaseTime <= duration, with attack and
\* release of 10 ms and 50 ms (percussive) or 50 ms and 100 ms (sustained),
\* and the gain is 0 at 0, volume x 0.03 at the end of the attack, 70% of
\* that at the release point and 0 at the duration
C37_Envelope ==
  returned.rendered # Undefined =>
    LET r == returned.rendered[1]
        percussive == returned.definition.envelope \in {Undefined, Some("percussive")}
        volume == IF returned.definition.volume = Undefined
                    THEN 100 ELSE returned.definition.volume[1]
    IN /\ ~r.threw
       /\ r.gain[1] = [time |-> 0, value |-> 0]
       /\ r.gain[2] = [time |-> IF percussive THEN 10 ELSE 50, value |-> volume * 30]
       /\ r.gain[3] = [time |-> r.duration - (IF percussive THEN 50 ELSE 100),
                       value |-> volume * 21]
       /\ r.gain[4] = [time |-> r.duration, value |-> 0]
       /\ 0 < r.gain[2].time
       /\ r.gain[2].time <= r.gain[3].time
       /\ r.gain[3].time <= r.gain[4].time

\* C38: in platform mode destroy() resolves every submission in flight with
\* {success: false, error: "SDK destroyed"}, and the submit() call of each
\* resolves to that result without invoking an observer
C38_DestroyedSilently ==
  [][\A f \in Inst :
       /\ (facade[f].isPlatform /\ facade[f].platformBridge /\ Destroy(f)) =>
            \A id \in DOMAIN bridge[f].pendingSubmits :
              bridge'[f].resolveCalls[id] = <<DestroyedResult>>
       /\ \A c \in calls[f] :
            (/\ Resume(f, c)
             /\ c.id \notin bridge[f].rejected
             /\ bridge[f].resolveCalls[c.id][1] = DestroyedResult) =>
              (returned'.result = DestroyedResult /\ returned'.invoked = <<>>)]_vars

\* C40: once every getScores request of the overlay has settled, the scores
\* it displays are those returned for the active tab
C40_ActiveTabShown ==
  \A f \in Inst :
    (facade[f].overlay.open /\ ~\E c \in calls[f] : c.op = "loadScores") =>
      facade[f].overlay.shown = Some(facade[f].overlay.activeTab)

\* ------------------------------------------------------ facade properties
Invoked(seq) == {seq[i].handler : i \in 1..Len(seq)}
Times(seq, h) == Cardinality({i \in 1..Len(seq) : seq[i].handler = h})
Members(hs) == {hs[i] : i \in 1..Len(hs)}
\* h comes before k in the sequence of handlers hs
Before(hs, h, k) == \E i, j \in 1..Len(hs) : i < j /\ hs[i] = h /\ hs[j] = k
\* h was invoked before k
InvokedBefore(seq, h, k) ==
  \E i, j \in 1..Len(seq) : i < j /\ seq[i].handler = h /\ seq[j].handler = k
\* the facades that were constructed
Facades == {f \in Inst : facade[f] # NoFacade}
\* the step completed a submit() of facade f that had been suspended at a transport
CompletesSubmit(f) ==
  /\ returned'.op = "submit" /\ returned'.inst = f
  /\ calls'[f] # calls[f]
\* the step is a submit() of facade f that returned without reaching a transport
ShortCircuitsSubmit(f) ==
  /\ returned'.op = "submit" /\ returned'.inst = f
  /\ calls'[f] = calls[f]

\* C6: a submit_result event answers one submission, so dispatching it changes
\* the bridge of at most one facade of the page: it never resolves or alters a
\* pending submission of another instance.
C6_NoInterference ==
  [][ \A event \in PageEvents : PageDispatch(event) =>
        Cardinality({f \in Inst : bridge'[f] # bridge[f]}) <= 1
    ]_vars

\* C11: the first call of an unsubscribe closure removes its function from the
\* registered observers and nothing else; every later call of the same closure
\* leaves the registered observers unchanged, whatever was registered meanwhile.
C11_UnsubscribeIdempotent ==
  [][ \A f \in Facades, k \in 1..MaxClosures :
        CallUnsubscribe(f, k) =>
          IF facade[f].closures[k].called
            THEN facade'[f].submitHandlers = facade[f].submitHandlers
            ELSE facade'[f].submitHandlers =
                   SelectSeq(facade[f].submitHandlers,
                             LAMBDA x : x # facade[f].closures[k].fn)
    ]_vars

\* C12: a completed submit() invokes no handler that was not subscribed when
\* its result is fanned out; when the fan-out unsubscribes handlers, each
\* handler still subscribed afterwards was invoked exactly once with the result.
C12_UnsubscribeDuringFanOut ==
  [][ \A f \in Facades : CompletesSubmit(f) =>
        /\ Invoked(returned'.invoked) \subseteq Members(facade[f].submitHandlers)
        /\ facade'[f].submitHandlers # facade[f].submitHandlers =>
             \A h \in Members(facade'[f].submitHandlers) :
               /\ Times(returned'.invoked, h) = 1
               /\ \A i \in 1..Len(returned'.invoked) :
                    returned'.invoked[i].handler = h
                      => returned'.invoked[i].arg = returned'.result
    ]_vars

\* an observer unsubscribed itself and an observer notified before it; the
\* one registered after them was notified once
C12_Witness ==
  /\ returned.op = "submit"
  /\ [i \in 1..Len(returned.invoked) |-> returned.invoked[i].handler]
       = <<"plain", "remover", "thrower">>
  /\ facade[1].submitHandlers = <<"thrower">>

\* C13: a platform facade never issues an HTTP submit request, and a
\* standalone facade never submits through the Transport Channel: each submit()
\* uses the transport of the mode detected at construction.
C13_TransportByMode ==
  [][ \A f \in Facades :
        /\ facade[f].isPlatform =>
             \A q \in http' \ http : ~(q.inst = f /\ q.endpoint = "submit")
        /\ ~facade[f].isPlatform =>
             /\ \A c \in calls'[f] \ calls[f] : c.via # "bridge"
             /\ bridge'[f] = bridge[f]
    ]_vars

\* C14: once a facade's gameId property is non-null, no step changes it; a
\* standalone facade's gameId never changes at all.
C14_GameIdMonotonic ==
  [][ \A f \in Facades :
        (getGameId(f) # Null \/ ~facade[f].isPlatform) => getGameId(f)' = getGameId(f)
    ]_vars

\* C15: the bridge's ready flag starts false, becomes true only by handling a
\* context message that carries a gameId, never goes back to false (destroy
\* included), and is true exactly when gameId is non-null.
C15_Ready ==
  /\ \A b \in BridgeInst : ~bridge[b].ready /\ bridge[b].gameId = Null
  /\ [][ \A b \in BridgeInst :
           /\ bridge[b].ready => bridge'[b].ready
           /\ bridge'[b].ready <=> bridge'[b].gameId # Null
           /\ (~bridge[b].ready /\ bridge'[b].ready) =>
                \E event \in ContextEvents :
                  Truthy(event.payload.gameId) /\ Dispatch(event)
       ]_vars

\* a destroyed bridge that had learnt its gameId is still ready
C15_Witness ==
  /\ ~bridge[1].listening
  /\ bridge[1].ready /\ bridge[1].gameId = "g1"
  /\ bridge[1].submitId > 0

\* C16: once the bridge's gameId is non-null, no step changes it, whatever
\* message is dispatched.
C16_GameIdFixed ==
  [][ \A b \in BridgeInst :
        bridge[b].gameId # Null => bridge'[b].gameId = bridge[b].gameId
    ]_vars

\* a message the bridge br has nothing to do with
Unrelated(br, event) ==
  \/ ~event.isObject
  \/ event.source # PARENT_SOURCE
  \/ event.type \notin {"context", "submit_result"}
  \/ /\ event.type = "submit_result"
     /\ \A id \in DOMAIN br.pendingSubmits : event.payload.id # Some(id)

\* C17: dispatching a message that is not an object, does not carry the parent
\* tag, has another type than context and submit_result, or is a submit_result
\* whose ID matches no pending entry changes nothing in the bridge: gameId,
\* ready, pending entries and timers stay and no promise is resolved.
C17_UnrelatedIgnored ==
  [][ \A b \in BridgeInst, event \in Events :
        (Unrelated(bridge[b], event) /\ Dispatch(event)) => bridge'[b] = bridge[b]
    ]_vars

\* the answer to submission 1 was handled and submission 2 is pending with its
\* timer armed: a replay of the answer to 1 matches no pending entry
C17_Witness ==
  /\ bridge[1].listening /\ bridge[1].ready
  /\ DOMAIN bridge[1].pendingSubmits = {2} /\ bridge[1].timers = {2}
  /\ bridge[1].resolveCalls[1] # <<>>
  /\ IsMessageResult(bridge[1].resolveCalls[1][1])

\* C18: when an HTTP exchange of submit() or share() ends, the call resolves;
\* on a network failure, a non-2xx status or an unparsable body it resolves to
\* a failure with a message, which for a non-2xx status is the body's error
\* field when the body parses and has one and "HTTP <status>" otherwise; on a
\* 2xx status with a parsable body share() resolves to success with shareUrl.
C18_ApiFailures ==
  [][ \A f \in Facades, resp \in ApiResponses :
        \A c \in {x \in calls[f] : x.via = "api" /\ x.op \in {"submit", "share"}} :
          ApiRespond(f, c, resp) =>
            LET result == returned'.result
                is2xx == resp.status >= 200 /\ resp.status <= 299
            IN /\ returned'.op = c.op
               /\ (~resp.fetchOk \/ ~is2xx \/ ~resp.jsonOk) =>
                    ~result.success /\ result.error # Undefined
               /\ (resp.fetchOk /\ ~is2xx) =>
                    result.error =
                      IF resp.jsonOk /\ ~resp.body.isNull /\ resp.body.error # Undefined
                        THEN resp.body.error
                        ELSE Some("HTTP " \o ToString(resp.status))
               /\ (c.op = "share" /\ resp.fetchOk /\ is2xx /\ resp.jsonOk) =>
                    /\ result.success
                    /\ result.shareUrl =
                         IF resp.body.isNull THEN Undefined ELSE resp.body.shareUrl
    ]_vars

\* C19: when the HTTP exchange of getScores() ends with a network failure, a
\* non-2xx status, an unparsable body or a 2xx body without a scores list, the
\* call resolves to exactly the empty snapshot: no scores, the requested
\* timeframe or 'weekly' when none was requested, and no you entry.
C19_GetScoresFailure ==
  [][ \A f \in Facades, resp \in ApiResponses :
        \A c \in {x \in calls[f] : x.via = "api" /\ x.op = "getScores"} :
          (/\ \/ ~resp.fetchOk
              \/ ~(resp.status >= 200 /\ resp.status <= 299)
              \/ ~resp.jsonOk
              \/ resp.body.isNull
              \/ resp.body.scores = Undefined
           /\ ApiRespond(f, c, resp))
            => returned' = [op |-> "getScores", inst |-> f,
                            result |-> [scores |-> <<>>,
                                        timeframe |-> IF c.timeframe = Undefined
                                                        THEN "weekly" ELSE c.timeframe[1],
                                        you |-> Undefined],
                            invoked |-> <<>>]
    ]_vars

\* a facade that knows its gameId got the empty snapshot for the all-time board
C19_Witness ==
  /\ getGameId(1) # Null /\ hasGameId(getGameId(1))
  /\ returned.op = "getScores"
  /\ returned.result.scores = <<>>
  /\ returned.result.timeframe = "all_time"

\* C20: when getScores() resolves from a 2xx response with a scores list, the
\* returned list has the server's entries in the server's order; each entry
\* has the server's rank when the response gives one and its 1-based position
\* otherwise, so every rank is a number.
C20_RankDefault ==
  [][ \A f \in Facades, resp \in ApiResponses :
        \A c \in {x \in calls[f] : x.via = "api" /\ x.op = "getScores"} :
          (/\ resp.fetchOk /\ resp.status >= 200 /\ resp.status <= 299 /\ resp.jsonOk
           /\ ~resp.body.isNull /\ resp.body.scores # Undefined
           /\ ApiRespond(f, c, resp))
            => LET server == resp.body.scores[1]
                   got == returned'.result.scores
               IN /\ Len(got) = Len(server)
                  /\ \A i \in 1..Len(server) :
                       /\ got[i].id = server[i].id
                       /\ got[i].score = server[i].score
                       /\ got[i].rank \in Nat
                       /\ got[i].rank = IF server[i].rank # Undefined
                                          THEN server[i].rank[1] ELSE i
    ]_vars

\* a snapshot whose first entry kept the server's rank 3, whose second got its
\* position 2 and whose third kept the server's rank 0
C20_Witness ==
  /\ returned.op = "getScores"
  /\ Len(returned.result.scores) = 3
  /\ returned.result.scores[1].rank = 3
  /\ returned.result.scores[2].rank = 2
  /\ returned.result.scores[3].rank = 0

\* the ranks a response body gives: each is omitted or a positive integer
ServerRanksPositive(body) ==
  /\ \A i \in 1..Len(body.scores[1]) :
       body.scores[1][i].rank = Undefined \/ body.scores[1][i].rank[1] >= 1
  /\ body.you # Undefined =>
       (body.you[1].rank = Undefined \/ body.you[1].rank[1] >= 1)

\* C21: when getScores() resolves from a 2xx response whose ranks are omitted
\* or positive, every entry of the snapshot, the scores and the you entry
\* alike, has a rank >= 1.
C21_RanksPositive ==
  [][ \A f \in Facades, resp \in ApiResponses :
        \A c \in {x \in calls[f] : x.via = "api" /\ x.op = "getScores"} :
          (/\ resp.fetchOk /\ resp.status >= 200 /\ resp.status <= 299 /\ resp.jsonOk
           /\ ~resp.body.isNull /\ resp.body.scores # Undefined
           /\ ServerRanksPositive(resp.body)
           /\ ApiRespond(f, c, resp))
            => /\ \A i \in 1..Len(returned'.result.scores) :
                    returned'.result.scores[i].rank >= 1
               /\ returned'.result.you # Undefined =>
                    returned'.result.you[1].rank >= 1
    ]_vars

\* the guest name derived from the identifier the storage holds
GuestName(ls) ==
  IF ls.playerId = <<>> THEN Undefined
  ELSE Some(<<"Player-">> \o SubSeq(ls.playerId, Len(ls.playerId) - 3, Len(ls.playerId)))
\* the requests that carry the guest name: every getScores request
GuestRequests(reqs) == {q \in reqs : q.endpoint = "scores"}

\* C22: an identifier the storage holds is never replaced, and one is stored
\* only when the storage held none; every getScores request and every submit
\* request without explicit playerName carries "Player-" plus the last four
\* characters of the stored identifier (no name when none can be stored), so
\* the requests of both facades carry the same name.
C22_GuestIdentity ==
  [][ /\ localStorage.playerId # <<>> => localStorage'.playerId = localStorage.playerId
      /\ \A q \in GuestRequests(http' \ http) : q.playerName = GuestName(localStorage')
      /\ \A f \in Facades, uuid \in UUIDs :
           Submit(f, Score("number", 1500), Undefined, TRUE, uuid, MaxActivityTwo) =>
             \A q \in http' \ http : q.playerName = GuestName(localStorage')
      /\ \A q1, q2 \in GuestRequests(http') : q1.playerName = q2.playerName
    ]_vars

\* the identifier was created by the first call, and two facades have a
\* getScores request in flight with the name derived from it
C22_Witness ==
  /\ localStorage.playerId = <<"7", "7", "a", "1", "b", "2">>
  /\ \E q1, q2 \in GuestRequests(http) :
       /\ q1.inst = 1 /\ q2.inst = 2
       /\ q1.playerName = Some(<<"Player-", "a", "1", "b", "2">>)
       /\ q2.playerName = q1.playerName

\* C7: submit(score) with a score that is not a finite number returns the
\* invalid-score failure and changes nothing: no correlation ID taken, no
\* pending entry, no outbound message, no HTTP request.
C7_InvalidScore ==
  [][ \A f \in Facades, score \in {s \in Scores : ~(TypeofNumber(s) /\ IsFinite(s))},
         playerName \in {Undefined, Some(<<"Ann">>)}, uuid \in UUIDs :
        Submit(f, score, playerName, TRUE, uuid, MaxActivity)
          => /\ returned' = Return(f, "submit", InvalidScoreResult, <<>>)
             /\ UNCHANGED <<bridge, outbox, http, calls, facade, localStorage, audioVars>>
    ]_vars

\* an invalid score was refused by a platform facade whose bridge is live
C7_Witness ==
  /\ returned = Return(1, "submit", InvalidScoreResult, <<>>)
  /\ facade[1].isPlatform /\ facade[1].platformBridge
  /\ facade[1].submitHandlers # <<>>

\* C8: while no gameId is resolvable a facade issues no HTTP request; a
\* standalone submit() of a valid score returns the gameId-required failure,
\* getScores(opts) the empty snapshot with opts.timeframe or 'weekly', and
\* share() a failure with an error message.
C8_NoGameId ==
  [][ \A f \in Facades : getGameId(f) = Null =>
        /\ {q \in http' : q.inst = f} \subseteq {q \in http : q.inst = f}
        /\ ~facade[f].isPlatform =>
             \A score \in {s \in Scores : TypeofNumber(s) /\ IsFinite(s)},
                playerName \in {Undefined, Some(<<"Ann">>)}, uuid \in UUIDs :
               Submit(f, score, playerName, TRUE, uuid, MaxActivity)
                 => returned' = Return(f, "submit", GameIdRequiredResult, <<>>)
        /\ \A timeframe \in {Undefined, Some("weekly"), Some("all_time")}, uuid \in UUIDs :
             GetScores(f, timeframe, uuid, MaxActivity)
               => returned' = Return(f, "getScores",
                                     [scores |-> <<>>,
                                      timeframe |-> IF timeframe = Undefined
                                                      THEN "weekly" ELSE timeframe[1],
                                      you |-> Undefined], <<>>)
        /\ Share(f, MaxActivity)
             => /\ returned'.op = "share"
                /\ ~returned'.result.success
                /\ returned'.result.error # Undefined
    ]_vars

\* a standalone facade without gameId refused a valid score
C8_Witness ==
  /\ ~facade[1].isPlatform /\ getGameId(1) = Null
  /\ returned = Return(1, "submit", GameIdRequiredResult, <<>>)

\* C9 as stated: every submit() that resolves invokes each observer subscribed
\* at that moment once, in registration order, with the value it resolves to.
C9_Original ==
  [][ \A f \in Inst : (returned'.op = "submit" /\ returned'.inst = f) =>
        /\ [i \in 1..Len(returned'.invoked) |-> returned'.invoked[i].handler]
             = facade[f].submitHandlers
        /\ \A i \in 1..Len(returned'.invoked) : returned'.invoked[i].arg = returned'.result
    ]_vars

\* C9 amended: a submit() whose result came from a transport invokes, with the
\* value it resolves to and in registration order, each observer that is
\* subscribed when the fan-out starts and not unsubscribed during it exactly
\* once; a submit() that returns before reaching a transport invokes none.
C9_FanOut ==
  [][ \A f \in Inst :
        /\ CompletesSubmit(f) =>
             /\ \A h \in Members(facade[f].submitHandlers) :
                  h \in Members(facade'[f].submitHandlers)
                    => Times(returned'.invoked, h) = 1
             /\ \A h, k \in Members(facade[f].submitHandlers) \cap Invoked(returned'.invoked) :
                  Before(facade[f].submitHandlers, h, k)
                    => /\ InvokedBefore(returned'.invoked, h, k)
                       /\ ~InvokedBefore(returned'.invoked, k, h)
             /\ Invoked(returned'.invoked) \subseteq Members(facade[f].submitHandlers)
             /\ \A i \in 1..Len(returned'.invoked) :
                  returned'.invoked[i].arg = returned'.result
        /\ ShortCircuitsSubmit(f) => returned'.invoked = <<>>
    ]_vars

\* three observers were notified of one result
C9_Witness ==
  /\ returned.op = "submit"
  /\ Len(returned.invoked) = 3
  /\ returned.result.success

\* C10: when an observer throws during the fan-out, every observer that is
\* still subscribed is invoked with the result all the same, and submit()
\* resolves to the result the transport gave.
C10_ObserverThrows ==
  [][ \A f \in Inst :
        (CompletesSubmit(f) /\ \E h \in Invoked(returned'.invoked) : HandlerThrows(h)) =>
          /\ \A h \in Members(facade[f].submitHandlers) :
               h \in Members(facade'[f].submitHandlers)
                 => \E i \in 1..Len(returned'.invoked) :
                      /\ returned'.invoked[i].handler = h
                      /\ returned'.invoked[i].arg = returned'.result
          /\ \E c \in calls[f] \ calls'[f] :
               IF c.via = "bridge"
                 THEN returned'.result = bridge[f].resolveCalls[c.id][1]
                 ELSE \E resp \in ApiResponses :
                        returned'.result =
                          LET r == request(resp) IN
                          IF r.threw
                            THEN SubmitResult(FALSE, Undefined, Undefined, Some(r.message))
                          ELSE IF r.body.isNull
                            THEN SubmitResult(FALSE, Undefined, Undefined,
                                              Some(NullTypeError))
                            ELSE SubmitResult(r.body.success, r.body.rank, r.body.scoreId,
                                              Undefined)
    ]_vars

\* the throwing observer was notified first, and another one after it
C10_Witness ==
  /\ returned.op = "submit"
  /\ Len(returned.invoked) >= 2
  /\ returned.invoked[1].handler = "thrower"
  /\ returned.result.success
====
